---- MODULE Spec2Model ----
(***************************************************************************)
(* Job lifecycle engine of the INSIGHT server (src/server): admission of   *)
(* scrape / analysis / recommendations requests with their credit debit,   *)
(* the background runners, job cancellation, the stuck-job watchdog and    *)
(* the UpdateUserCredits endpoint, over the MongoDB collections users,     *)
(* jobs, posts, pain_points, anthropic_analysis and recommendations.       *)
(*                                                                         *)
(* Every step is one database operation (or one handler segment that only  *)
(* reads) of one thread; threads interleave freely between steps.          *)
(***************************************************************************)
EXTENDS Integers, FiniteSets, Sequences, TLC

\* ------------------------------------------------------------------ bounds
MaxTime == 2           \* the clock runs 0..MaxTime
TimeoutMinutes == 1    \* check_stuck_jobs(timeout_minutes)
MaxAmount == 1         \* largest amount an UpdateUserCredits request carries
MaxCredits == 3        \* largest initial credits of a user
MaxLimit == 250        \* largest limit handed to calculate_insight_cost
MaxQueries == 2        \* search queries of one scrape job
failure_threshold == 2 \* CircuitBreaker(failure_threshold=...)
timeout == 1           \* CircuitBreaker(timeout=...), in the unit of now

\* --------------------------------------------------------------- constants
Null == -1             \* Python None in a nullable integer / datetime field
CancelRefund == 1      \* CancelJob.post: {"$inc": {"credits": 1}}
RegenerateCost == 1    \* RunAnalysis.post, Recommendations.post (regenerate)
FirstTimeRecCost == 2  \* Recommendations.post (first time)

Users == {"alice", "bob"}
Slots == {1, 2}         \* start requests (each creates at most one job)
Kinds == {"scrape", "analysis", "recommendations"}
RecTypes == {"improve_product", "new_feature", "competing_product"}
Terminal == {"completed", "failed", "cancelled"}
Statuses == {"pending", "in_progress"} \cup Terminal
Clients == Users        \* Socket.IO clients, named by the user behind them

VARIABLES
    credits,          \* db.users: username -> credits
    jobs,             \* db.jobs: job id (= slot of the creating request) -> document
    posts,            \* db.posts: whether the product has any post
    analyses,         \* db.anthropic_analysis: the <<user, product>> with a document
    pain_points,      \* db.pain_points: the <<user, product>> with pain points
    recommendations,  \* db.recommendations: the documents
    req,              \* per slot: the start request and then its runner thread
    can,              \* the CancelJob.post requests
    upd,              \* the UpdateUserCredits.post request
    wd,               \* the check_stuck_jobs sweep of the watchdog thread
    now,              \* datetime.now(timezone.utc), in minutes
    ledger,           \* per slot: credits debited / credited on the job's account
    rooms,            \* Socket.IO rooms: job id -> the clients that joined
    inbox,            \* per client: the job_log events it received, in order
    app,              \* per slot: the runner's append_job_log calls so far
    user_scraping_jobs,  \* data_store.user_scraping_jobs: username -> job ids tracked
    reg,              \* per slot: where its handler and its runner are with that dict
    call,             \* one update_job_status call, attempt by attempt
    cb,               \* a CircuitBreaker: its fields and the holder of its lock
    caller            \* per thread: where it is in a method of the breaker

storeVars == <<posts, analyses, pain_points, recommendations>>
busVars == <<rooms, inbox, app>>
regVars == <<user_scraping_jobs, reg>>
cbVars == <<cb, caller>>
vars == <<credits, jobs, posts, analyses, pain_points, recommendations,
          req, can, upd, wd, now, ledger, rooms, inbox, app,
          user_scraping_jobs, reg, call, cb, caller>>

\* ------------------------------------------------------------ cost function
\* calculate_insight_cost(limit, time_filter)
\* (a table that gives an unknown filter no multiplier)
time_mult_unknown_zero(time_filter) ==
    CASE time_filter = "hour" -> 1
      [] time_filter = "day" -> 1
      [] time_filter = "week" -> 1
      [] time_filter = "month" -> 2
      [] time_filter = "year" -> 3
      [] time_filter = "all" -> 4
      [] OTHER -> 0

time_mult(time_filter) ==
    CASE time_filter = "hour" -> 1
      [] time_filter = "day" -> 1
      [] time_filter = "week" -> 1
      [] time_filter = "month" -> 2
      [] time_filter = "year" -> 3
      [] time_filter = "all" -> 4
      [] OTHER -> 1

limit_tier(limit) ==
    IF limit <= 50 THEN 1 ELSE IF limit <= 100 THEN 2 ELSE IF limit <= 200 THEN 3 ELSE 4

calculate_insight_cost(limit, time_filter) ==
    IF limit <= 10 THEN 1 ELSE limit_tier(limit) * (time_mult(time_filter) + 1)

\* ------------------------------------------------------------- documents
NoJob ==
    [status |-> "none", user_id |-> "nobody", type |-> "none",
     created_at |-> Null, started_at |-> Null, completed_at |-> Null,
     error |-> "none", credits_used |-> Null, results |-> FALSE,
     logs |-> <<>>]

IdleReq ==
    [pc |-> "idle", user |-> "nobody", kind |-> "none", regenerate |-> FALSE,
     product |-> "Slack", context |-> 0,
     rtype |-> "none", limit |-> 0, time_filter |-> "none",
     required_credits |-> 0, available |-> 0,
     query |-> 0, last_query |-> "none", skipped |-> 0,
     all_posts |-> 0, posts_saved |-> 0,
     http |-> 0, resp |-> "none"]

\* No append_job_log call yet: k calls made, the step of the last one,
\* whether its entry is pushed and its on_job_log callback still to run, and
\* the on_job_log calls made so far.
NoAppends == [k |-> 0, last |-> "none", timestamp |-> 0, emit |-> FALSE, called |-> 0]

\* The handler has not looked at user_scraping_jobs yet (h), nor has the
\* runner's finally block (f); list is the list either has built from it.
NoReg == [h |-> "none", f |-> "none", list |-> <<>>]

NoLedger == [debited |-> 0, runner |-> 0, cancel |-> 0, dispatcher |-> 0, cleared |-> 0,
             deleted |-> 0]

\* (a document inserted with credits_used 0 instead of None)
NewJob_credits_used_zero(user, kind) ==
    [NoJob EXCEPT !.status = "pending", !.user_id = user, !.type = kind,
                  !.created_at = now, !.credits_used = 0]

\* create_job: the inserted document
NewJob(user, kind) ==
    [NoJob EXCEPT !.status = "pending", !.user_id = user, !.type = kind,
                  !.created_at = now]

\* ------------------------------------------------- MongoDBStore.update_job_status
\* **updates: has = the keyword arguments the caller passes, then their values.
Patch(has, error, credits_used, completed_at) ==
    [has |-> has, error |-> error, credits_used |-> credits_used,
     completed_at |-> completed_at]

NoPatch == Patch({}, "none", Null, Null)

\* (update_data without the completed_at default)
update_data_no_completed_at(doc, status, patch) ==
    LET d1 == [doc EXCEPT !.status = status]
        d2 == IF status = "in_progress"
                 THEN [d1 EXCEPT !.started_at = now] ELSE d1
        d4 == IF "completed_at" \in patch.has
                 THEN [d2 EXCEPT !.completed_at = patch.completed_at] ELSE d2
        d5 == IF "error" \in patch.has THEN [d4 EXCEPT !.error = patch.error] ELSE d4
        d6 == IF "credits_used" \in patch.has
                 THEN [d5 EXCEPT !.credits_used = patch.credits_used] ELSE d5
    IN  IF "results" \in patch.has THEN [d6 EXCEPT !.results = TRUE] ELSE d6

\* update_data of one attempt: status, the defaulted timestamps, then **updates
update_data(doc, status, patch) ==
    LET d1 == [doc EXCEPT !.status = status]
        d2 == IF status = "in_progress"
                 THEN [d1 EXCEPT !.started_at = now] ELSE d1
        d3 == IF status \in Terminal /\ "completed_at" \notin patch.has
                 THEN [d2 EXCEPT !.completed_at = now] ELSE d2
        d4 == IF "completed_at" \in patch.has
                 THEN [d3 EXCEPT !.completed_at = patch.completed_at] ELSE d3
        d5 == IF "error" \in patch.has THEN [d4 EXCEPT !.error = patch.error] ELSE d4
        d6 == IF "credits_used" \in patch.has
                 THEN [d5 EXCEPT !.credits_used = patch.credits_used] ELSE d5
    IN  IF "results" \in patch.has THEN [d6 EXCEPT !.results = TRUE] ELSE d6

\* The filter of the update_one: {"_id": job_id}, whatever the current status.
update_filter(doc, status) == doc.status # "none"

\* ok = FALSE: the write failed (ConnectionFailure / OperationFailure on every
\* attempt, or another exception): nothing is written and False is returned.
update_job_status_returns(js, j, status, ok) ==
    ok /\ update_filter(js[j], status)

update_job_status(js, j, status, patch, ok) ==
    IF update_job_status_returns(js, j, status, ok)
       THEN [js EXCEPT ![j] = update_data(js[j], status, patch)]
       ELSE js

\* ---------------------------------- update_job_status, attempt by attempt
max_retries == 3

\* What one pass through the try block meets: update_one returns a result, or
\* raises ConnectionFailure, OperationFailure or another exception.
Outcomes == {"result", "ConnectionFailure", "OperationFailure", "Exception"}

IdleCall == [pc |-> "idle", job |-> 1, status |-> "none", retry_count |-> 0,
             attempts |-> 0, last |-> "none", modified |-> FALSE, ret |-> "none"]

\* (every exception handled by the retrying handlers)
retried_any_exception(outcome) == outcome # "result"

\* The exceptions whose handlers count a retry.
retried(outcome) == outcome \in {"ConnectionFailure", "OperationFailure"}

\* The call, up to the loop: False at once when there is no database.
update_job_status_enter(j, status, db) ==
    /\ call.pc = "idle"
    /\ call' = [IdleCall EXCEPT !.job = j, !.status = status,
                                !.pc = IF db THEN "while" ELSE "done",
                                !.ret = IF db THEN "none" ELSE "False"]
    /\ UNCHANGED <<credits, jobs, storeVars, req, can, upd, wd, now, ledger, busVars, regVars, cbVars>>

\* One pass through the loop body: the update_one and what follows it.
update_job_status_attempt(outcome) ==
    /\ call.pc = "while"
    /\ call.retry_count < max_retries
    /\ LET modified == outcome = "result" /\ update_filter(jobs[call.job], call.status)
           tried == [call EXCEPT !.attempts = @ + 1, !.last = outcome,
                                 !.modified = modified]
           retry_count == call.retry_count + 1
       IN  /\ jobs' = IF modified
                         THEN [jobs EXCEPT ![call.job] = update_data(@, call.status, NoPatch)]
                         ELSE jobs
           /\ call' = IF outcome = "result"
                         THEN [tried EXCEPT !.pc = "done",
                                            !.ret = IF modified THEN "True" ELSE "False"]
                      ELSE IF retried(outcome)
                         THEN IF retry_count < max_retries
                                 THEN [tried EXCEPT !.retry_count = retry_count]
                                 ELSE [tried EXCEPT !.retry_count = retry_count,
                                                    !.pc = "done", !.ret = "False"]
                      ELSE [tried EXCEPT !.pc = "done", !.ret = "False"]
    /\ UNCHANGED <<credits, storeVars, req, can, upd, wd, now, ledger, busVars, regVars, cbVars>>

\* ------------------------------------------------------- the product artifacts
\* The product every request names, as the client sends it, and a product no
\* request names.
RequestProduct == "Slack"
OtherProduct == "zoom"

\* product.strip().lower()
product_normalized(product) == IF product = "Slack" THEN "slack" ELSE product

Products == {product_normalized(RequestProduct), OtherProduct}

\* delete_one({"_id": f"{user_id}:{product_normalized}"})
delete_anthropic_analysis(as, product, u) ==
    as \ {<<u, product_normalized(product)>>}

\* delete_many({"product": product_normalized, "user_id": user_id})
delete_pain_points_by_product(pps, product, u) ==
    {d \in pps : ~(d[2] = product_normalized(product) /\ d[1] = u)}

\* (the _id without the type, as the documents written before types existed)
rec_doc_id_untyped(u, product, t) == <<u, product_normalized(product), "">>

\* _id of a user's document: f"{user_id}:{product_normalized}:{type_val}"
rec_doc_id(u, product, t) == <<u, product_normalized(product), t>>

\* _id of a document written before types existed: f"{username}:{product_key}"
rec_legacy_id(u, product) == <<u, product_normalized(product), "">>

\* The type as save_recommendations and Recommendations.get normalise it.
type_val(t) == IF t \in RecTypes THEN t ELSE "improve_product"

\* recommendations_data of save_recommendations
RecDoc(u, product, t) ==
    [_id |-> rec_doc_id(u, product, type_val(t)), user_id |-> u,
     product |-> product_normalized(product),
     recommendation_type |-> type_val(t)]

\* update_one({"_id": _id}, {"$set": recommendations_data}, upsert=True)
save_recommendations(recs, u, product, t) ==
    {d \in recs : d._id # RecDoc(u, product, t)._id} \cup {RecDoc(u, product, t)}

\* delete_many({"product": product_normalized, "user_id": user_id})
delete_recommendations_by_product(recs, product, u) ==
    {d \in recs : ~(d.product = product_normalized(product) /\ d.user_id = u)}

\* find_one({"_id": id}): the documents (none or one) with that _id
find_one(recs, id) == {d \in recs : d._id = id}

\* Recommendations.get: the typed document, else for improve_product the
\* legacy one; dropped when stored under another type; returned as a list.
Recommendations_get(recs, u, product, t) ==
    LET rt == type_val(t)
        typed == find_one(recs, rec_doc_id(u, product, rt))
        doc == IF typed = {} /\ rt = "improve_product"
                  THEN find_one(recs, rec_legacy_id(u, product)) ELSE typed
        kept == {d \in doc : type_val(d.recommendation_type) = rt}
    IN  IF kept = {} THEN <<>> ELSE <<CHOOSE d \in kept : TRUE>>

\* ------------------------------------------------------- credit primitives
\* find_one_and_update({"username": u, "credits": {"$gte": cost}}, {"$inc": -cost})
\* (the filter without its "credits" condition)
debit_guard_dropped(c, cost) == TRUE

debit_guard(c, cost) == c >= cost

\* (the decrement applied whether or not the filter matched)
debit_credits_unfiltered(cr, u, cost) == [cr EXCEPT ![u] = @ - cost]

debit_credits(cr, u, cost) ==
    IF debit_guard(cr[u], cost) THEN [cr EXCEPT ![u] = @ - cost] ELSE cr

\* find_one_and_update({"username": u}, {"$inc": {"credits": amount}})
credit_credits(cr, u, amount) == [cr EXCEPT ![u] = @ + amount]

\* ------------------------------------------------------------ step helpers
Goto(s, pc) == req' = [req EXCEPT ![s].pc = pc]

\* The handler returns an HTTP response and the request is over.
Return(r, http, resp) == [r EXCEPT !.pc = "done", !.http = http, !.resp = resp]

Booked(s, field, amount) == ledger' = [ledger EXCEPT ![s][field] = @ + amount]

\* ======================================================= RunAnalysis.post
\* Validation, the posts precondition and, for a regenerate, the read of the
\* user's credits (find_one) with its check: reads only.
RunAnalysis_post(s, u, regenerate) ==
    /\ req[s].pc = "idle"
    /\ LET r == [req[s] EXCEPT !.user = u, !.kind = "analysis",
                               !.regenerate = regenerate,
                               !.required_credits = IF regenerate THEN RegenerateCost ELSE 0,
                               !.available = IF regenerate /\ posts THEN credits[u] ELSE 0]
       IN  req' = [req EXCEPT ![s] =
                IF ~posts THEN Return(r, 404, "no_posts_found")
                ELSE IF regenerate /\ r.available < RegenerateCost
                        THEN Return(r, 400, "insufficient_credits")
                ELSE IF regenerate THEN [r EXCEPT !.pc = "debit"]
                ELSE [r EXCEPT !.pc = "create"]]
    /\ UNCHANGED <<credits, jobs, storeVars, can, upd, wd, now, ledger, busVars, regVars, call, cbVars>>

\* The regenerate debit: find_one_and_update guarded by credits >= 1.
RunAnalysis_debit(s) ==
    /\ req[s].pc = "debit" /\ req[s].kind = "analysis"
    /\ LET u == req[s].user
       IN  /\ credits' = debit_credits(credits, u, RegenerateCost)
           /\ IF debit_guard(credits[u], RegenerateCost)
                 THEN /\ Booked(s, "debited", RegenerateCost)
                      /\ Goto(s, "clear")
                 ELSE /\ req' = [req EXCEPT ![s] = Return(@, 400, "insufficient_credits")]
                      /\ UNCHANGED ledger
    /\ UNCHANGED <<jobs, storeVars, can, upd, wd, now, busVars, regVars, call, cbVars>>

\* delete_anthropic_analysis, delete_pain_points_by_product and
\* delete_recommendations_by_product for (user, product). Each catches what
\* its delete raises and returns False (oka, okp, okr = FALSE), and the handler
\* does not look at what they return. (ledger: deleted = 1 when a document
\* was removed.)
RunAnalysis_clear(s, oka, okp, okr) ==
    /\ req[s].pc = "clear" /\ req[s].kind = "analysis"
    /\ analyses' = IF oka THEN delete_anthropic_analysis(analyses, RequestProduct, req[s].user)
                         ELSE analyses
    /\ pain_points' = IF okp THEN delete_pain_points_by_product(pain_points, RequestProduct,
                                                                req[s].user)
                            ELSE pain_points
    /\ recommendations' = IF okr THEN delete_recommendations_by_product(recommendations,
                                            RequestProduct, req[s].user)
                                ELSE recommendations
    /\ ledger' = [ledger EXCEPT ![s].cleared = @ + 1,
                                 ![s].deleted =
                                    IF <<analyses', pain_points', recommendations'>>
                                          # <<analyses, pain_points, recommendations>>
                                       THEN 1 ELSE 0]
    /\ Goto(s, "create")
    /\ UNCHANGED <<credits, jobs, posts, can, upd, wd, now, busVars, regVars, call, cbVars>>

\* create_job; on None the handler goes on to refund a regenerate's credit;
\* otherwise the runner thread is started and the response returned.
RunAnalysis_create(s, ok) ==
    /\ req[s].pc = "create" /\ req[s].kind = "analysis"
    /\ IF ok
          THEN /\ jobs' = [jobs EXCEPT ![s] = NewJob(req[s].user, "analysis")]
               /\ req' = [req EXCEPT ![s].pc = "run0", ![s].http = 200,
                                     ![s].resp = "success"]
          ELSE /\ req' = [req EXCEPT ![s] =
                    IF @.regenerate THEN [@ EXCEPT !.pc = "compensate"]
                                    ELSE Return(@, 500, "create_failed")]
               /\ UNCHANGED jobs
    /\ UNCHANGED <<credits, storeVars, can, upd, wd, now, ledger, busVars, regVars, call, cbVars>>

AnalysisCompensation == 1

RunAnalysis_compensate(s) ==
    /\ req[s].pc = "compensate" /\ req[s].kind = "analysis"
    /\ credits' = credit_credits(credits, req[s].user, AnalysisCompensation)
    /\ Booked(s, "dispatcher", AnalysisCompensation)
    /\ req' = [req EXCEPT ![s] = Return(@, 500, "create_failed")]
    /\ UNCHANGED <<jobs, storeVars, can, upd, wd, now, busVars, regVars, call, cbVars>>

\* ------------------------------------------------------ background_analysis
\* credits_used=1 if regenerate else None
analysis_credits_used(r) == IF r.regenerate THEN 1 ELSE Null

background_analysis_start(s, ok) ==
    /\ req[s].pc = "run0" /\ req[s].kind = "analysis"
    /\ jobs' = update_job_status(jobs, s, "in_progress", NoPatch, ok)
    /\ Goto(s, "run1")
    /\ UNCHANGED <<credits, storeVars, can, upd, wd, now, ledger, busVars, regVars, call, cbVars>>

\* Loading the posts, the analyzer call and the saves. outcome: "ok" (analysis,
\* pain points and improve_product recommendations saved), "ok_skip" (no
\* recommendations saved), "error" (the analyzer returns an error) or
\* "exception" (anything raises).
background_analysis_work(s, outcome) ==
    /\ req[s].pc = "run1" /\ req[s].kind = "analysis"
    /\ IF outcome \in {"ok", "ok_skip"}
          THEN /\ analyses' = analyses \cup {<<req[s].user, product_normalized(RequestProduct)>>}
               /\ pain_points' = pain_points
                                    \cup {<<req[s].user, product_normalized(RequestProduct)>>}
               /\ recommendations' =
                     IF outcome = "ok"
                        THEN save_recommendations(recommendations, req[s].user,
                                                  RequestProduct, "improve_product")
                        ELSE recommendations
               /\ Goto(s, "complete")
          ELSE /\ Goto(s, "fail")
               /\ UNCHANGED <<analyses, pain_points, recommendations>>
    /\ UNCHANGED <<credits, jobs, posts, can, upd, wd, now, ledger, busVars, regVars, call, cbVars>>

background_analysis_complete(s, ok) ==
    /\ req[s].pc = "complete" /\ req[s].kind = "analysis"
    /\ jobs' = update_job_status(jobs, s, "completed",
                   Patch({"results", "credits_used"}, "none",
                         analysis_credits_used(req[s]), Null), ok)
    /\ Goto(s, "done")
    /\ UNCHANGED <<credits, storeVars, can, upd, wd, now, ledger, busVars, regVars, call, cbVars>>

background_analysis_fail(s, ok) ==
    /\ req[s].pc = "fail" /\ req[s].kind = "analysis"
    /\ jobs' = update_job_status(jobs, s, "failed",
                   Patch({"error", "credits_used"}, "analysis_error",
                         analysis_credits_used(req[s]), Null), ok)
    /\ Goto(s, IF req[s].regenerate THEN "refund" ELSE "done")
    /\ UNCHANGED <<credits, storeVars, can, upd, wd, now, ledger, busVars, regVars, call, cbVars>>

AnalysisRefund == 1

background_analysis_refund(s) ==
    /\ req[s].pc = "refund" /\ req[s].kind = "analysis"
    /\ credits' = credit_credits(credits, req[s].user, AnalysisRefund)
    /\ Booked(s, "runner", AnalysisRefund)
    /\ Goto(s, "done")
    /\ UNCHANGED <<jobs, storeVars, can, upd, wd, now, busVars, regVars, call, cbVars>>

\* =================================================== Recommendations.post
\* (the price by the request's flag alone)
rec_required_credits_by_flag(existing, regenerate) ==
    IF regenerate THEN RegenerateCost ELSE FirstTimeRecCost

\* required_credits = 1 if is_regenerate else 2, with
\* is_regenerate = existing is not None and regenerate
rec_required_credits(existing, regenerate) ==
    IF existing /\ regenerate THEN RegenerateCost ELSE FirstTimeRecCost

\* Validation, the pain-points precondition, the existing-document lookup and
\* the read of the user's credits with its check: reads only.
Recommendations_post(s, u, rtype, regenerate) ==
    /\ req[s].pc = "idle"
    /\ LET cost == rec_required_credits(
                       find_one(recommendations, rec_doc_id(u, RequestProduct, rtype)) # {},
                       regenerate)
           has_pain_points == <<u, product_normalized(RequestProduct)>> \in pain_points
           r == [req[s] EXCEPT !.user = u, !.kind = "recommendations",
                               !.regenerate = regenerate, !.rtype = rtype,
                               !.required_credits = IF has_pain_points THEN cost ELSE 0,
                               !.available = IF has_pain_points THEN credits[u] ELSE 0]
       IN  req' = [req EXCEPT ![s] =
                IF ~has_pain_points THEN Return(r, 400, "no_pain_points")
                ELSE IF r.available < r.required_credits
                        THEN Return(r, 402, "insufficient_credits")
                ELSE [r EXCEPT !.pc = "debit"]]
    /\ UNCHANGED <<credits, jobs, storeVars, can, upd, wd, now, ledger, busVars, regVars, call, cbVars>>

Recommendations_debit(s) ==
    /\ req[s].pc = "debit" /\ req[s].kind = "recommendations"
    /\ LET u == req[s].user
           cost == req[s].required_credits
       IN  /\ credits' = debit_credits(credits, u, cost)
           /\ IF debit_guard(credits[u], cost)
                 THEN /\ Booked(s, "debited", cost)
                      /\ Goto(s, "create")
                 ELSE /\ req' = [req EXCEPT ![s] = Return(@, 402, "insufficient_credits")]
                      /\ UNCHANGED ledger
    /\ UNCHANGED <<jobs, storeVars, can, upd, wd, now, busVars, regVars, call, cbVars>>

Recommendations_create(s, ok) ==
    /\ req[s].pc = "create" /\ req[s].kind = "recommendations"
    /\ IF ok
          THEN /\ jobs' = [jobs EXCEPT ![s] = NewJob(req[s].user, "recommendations")]
               /\ req' = [req EXCEPT ![s].pc = "run0", ![s].http = 200,
                                     ![s].resp = "success"]
          ELSE /\ Goto(s, "compensate")
               /\ UNCHANGED jobs
    /\ UNCHANGED <<credits, storeVars, can, upd, wd, now, ledger, busVars, regVars, call, cbVars>>

\* (the compensation of the regenerate price, whatever was debited)
RecCompensation_one(r) == RegenerateCost

RecCompensation(r) == r.required_credits

Recommendations_compensate(s) ==
    /\ req[s].pc = "compensate" /\ req[s].kind = "recommendations"
    /\ credits' = credit_credits(credits, req[s].user, RecCompensation(req[s]))
    /\ Booked(s, "dispatcher", RecCompensation(req[s]))
    /\ req' = [req EXCEPT ![s] = Return(@, 500, "create_failed")]
    /\ UNCHANGED <<jobs, storeVars, can, upd, wd, now, busVars, regVars, call, cbVars>>

\* ----------------------------------------------- background_recommendations
background_recommendations_start(s, ok) ==
    /\ req[s].pc = "run0" /\ req[s].kind = "recommendations"
    /\ jobs' = update_job_status(jobs, s, "in_progress", NoPatch, ok)
    /\ Goto(s, "run1")
    /\ UNCHANGED <<credits, storeVars, can, upd, wd, now, ledger, busVars, regVars, call, cbVars>>

\* The analyzer call and save_recommendations. outcome: "ok" (the document of
\* (user, product, type) is upserted), "error" (the analyzer returns an error),
\* "save_failed" (save_recommendations returns False) or "exception".
background_recommendations_work(s, outcome) ==
    /\ req[s].pc = "run1" /\ req[s].kind = "recommendations"
    /\ IF outcome = "ok"
          THEN /\ recommendations' =
                     save_recommendations(recommendations, req[s].user, RequestProduct,
                                          req[s].rtype)
               /\ Goto(s, "complete")
          ELSE /\ Goto(s, "fail")
               /\ UNCHANGED recommendations
    /\ UNCHANGED <<credits, jobs, posts, analyses, pain_points, can, upd, wd, now, ledger, busVars, regVars, call, cbVars>>

background_recommendations_complete(s, ok) ==
    /\ req[s].pc = "complete" /\ req[s].kind = "recommendations"
    /\ jobs' = update_job_status(jobs, s, "completed",
                   Patch({"results", "credits_used"}, "none",
                         req[s].required_credits, Null), ok)
    /\ Goto(s, "done")
    /\ UNCHANGED <<credits, storeVars, can, upd, wd, now, ledger, busVars, regVars, call, cbVars>>

background_recommendations_fail(s, ok) ==
    /\ req[s].pc = "fail" /\ req[s].kind = "recommendations"
    /\ jobs' = update_job_status(jobs, s, "failed",
                   Patch({"error", "credits_used"}, "recommendations_error",
                         req[s].required_credits, Null), ok)
    /\ Goto(s, "refund")
    /\ UNCHANGED <<credits, storeVars, can, upd, wd, now, ledger, busVars, regVars, call, cbVars>>

RecRefund(r) == r.required_credits

background_recommendations_refund(s) ==
    /\ req[s].pc = "refund" /\ req[s].kind = "recommendations"
    /\ credits' = credit_credits(credits, req[s].user, RecRefund(req[s]))
    /\ Booked(s, "runner", RecRefund(req[s]))
    /\ Goto(s, "done")
    /\ UNCHANGED <<jobs, storeVars, can, upd, wd, now, busVars, regVars, call, cbVars>>

\* ========================================================= ScrapePosts.post
ValidTimeFilters == {"hour", "day", "week", "month", "year", "all"}

\* What the handler debits before create_job: it performs no credit operation.
scrape_debit(limit, time_filter) == 0

\* Validation of topic and time_filter, the dead-thread clean-up and the
\* subreddit suggestions; no read or write of the user's credits.
ScrapePosts_post(s, u, limit, time_filter) ==
    /\ req[s].pc = "idle"
    /\ LET r == [req[s] EXCEPT !.user = u, !.kind = "scrape", !.limit = limit,
                               !.time_filter = time_filter,
                               !.required_credits = scrape_debit(limit, time_filter)]
       IN  req' = [req EXCEPT ![s] =
                IF time_filter \notin ValidTimeFilters
                   THEN Return(r, 400, "invalid_time_filter")
                   ELSE [r EXCEPT !.pc = "create"]]
    /\ UNCHANGED <<credits, jobs, storeVars, can, upd, wd, now, ledger, busVars, regVars, call, cbVars>>

ScrapePosts_create(s, ok) ==
    /\ req[s].pc = "create" /\ req[s].kind = "scrape"
    /\ IF ok
          THEN /\ jobs' = [jobs EXCEPT ![s] = NewJob(req[s].user, "scrape")]
               /\ Goto(s, "init")
          ELSE /\ req' = [req EXCEPT ![s] = Return(@, 500, "create_failed")]
               /\ UNCHANGED jobs
    /\ UNCHANGED <<credits, storeVars, can, upd, wd, now, ledger, busVars, regVars, call, cbVars>>

\* The Reddit client: with credentials missing or initialize_client failing the
\* handler marks the job failed and returns 500; otherwise it starts the thread.
ScrapePosts_init(s, client_ok, ok) ==
    /\ req[s].pc = "init" /\ req[s].kind = "scrape"
    /\ IF client_ok
          THEN /\ req' = [req EXCEPT ![s].pc = "run0", ![s].http = 200,
                                     ![s].resp = "success"]
               /\ UNCHANGED jobs
          ELSE /\ jobs' = update_job_status(jobs, s, "failed",
                              Patch({"error"}, "reddit_client", Null, Null), ok)
               /\ req' = [req EXCEPT ![s] = Return(@, 500, "reddit_client")]
    /\ UNCHANGED <<credits, storeVars, can, upd, wd, now, ledger, busVars, regVars, call, cbVars>>

\* --------------------------------------------------------- background_scrape
background_scrape_start(s, ok) ==
    /\ req[s].pc = "run0" /\ req[s].kind = "scrape"
    /\ jobs' = update_job_status(jobs, s, "in_progress", NoPatch, ok)
    /\ Goto(s, "run1")
    /\ UNCHANGED <<credits, storeVars, can, upd, wd, now, ledger, busVars, regVars, call, cbVars>>

\* The searches and save_post. outcome: "ok" (posts found and saved), "empty"
\* (every query failed or found nothing) or "exception" (the outer handler).
background_scrape_work(s, outcome) ==
    /\ req[s].pc = "run1" /\ req[s].kind = "scrape"
    /\ posts' = (posts \/ outcome = "ok")
    /\ Goto(s, IF outcome = "exception" THEN "fail" ELSE "complete")
    /\ UNCHANGED <<credits, jobs, analyses, pain_points, recommendations,
                   can, upd, wd, now, ledger, busVars, regVars, call, cbVars>>

\* The searches, query by query. What one search meets: it returns a post, it
\* returns none, it times out or it raises.
QueryOutcomes == {"posts", "none", "TimeoutError", "Exception"}

\* (a loop whose handler of Exception re-raises to the outer handler)
background_scrape_query_raises(s, outcome) ==
    /\ req[s].pc = "run1" /\ req[s].kind = "scrape"
    /\ req[s].query < MaxQueries
    /\ req' = [req EXCEPT ![s].query = @ + 1, ![s].last_query = outcome,
                          ![s].pc = IF outcome = "Exception" THEN "fail" ELSE @,
                          ![s].skipped = @ + (IF outcome \in {"TimeoutError", "Exception"}
                                                 THEN 1 ELSE 0),
                          ![s].all_posts = @ + (IF outcome = "posts" THEN 1 ELSE 0)]
    /\ UNCHANGED <<credits, jobs, storeVars, can, upd, wd, now, ledger, busVars, regVars, call, cbVars>>

\* One pass of the loop over the queries: all_posts.extend(posts), or the
\* handler of TimeoutError or of Exception, which logs and goes on.
background_scrape_query(s, outcome) ==
    /\ req[s].pc = "run1" /\ req[s].kind = "scrape"
    /\ req[s].query < MaxQueries
    /\ req' = [req EXCEPT ![s].query = @ + 1, ![s].last_query = outcome,
                          ![s].skipped = @ + (IF outcome \in {"TimeoutError", "Exception"}
                                                 THEN 1 ELSE 0),
                          ![s].all_posts = @ + (IF outcome = "posts" THEN 1 ELSE 0)]
    /\ UNCHANGED <<credits, jobs, storeVars, can, upd, wd, now, ledger, busVars, regVars, call, cbVars>>

\* After the loop: save_post on every post of all_posts, saved of them
\* returning True, and the results with posts_count = posts_saved.
background_scrape_save(s, saved) ==
    /\ req[s].pc = "run1" /\ req[s].kind = "scrape"
    /\ req[s].query = MaxQueries
    /\ saved <= req[s].all_posts
    /\ posts' = (posts \/ saved > 0)
    /\ req' = [req EXCEPT ![s].posts_saved = saved, ![s].pc = "complete"]
    /\ UNCHANGED <<credits, jobs, analyses, pain_points, recommendations,
                   can, upd, wd, now, ledger, busVars, regVars, call, cbVars>>

background_scrape_complete(s, ok) ==
    /\ req[s].pc = "complete" /\ req[s].kind = "scrape"
    /\ jobs' = update_job_status(jobs, s, "completed",
                   Patch({"results"}, "none", Null, Null), ok)
    /\ Goto(s, "done")
    /\ UNCHANGED <<credits, storeVars, can, upd, wd, now, ledger, busVars, regVars, call, cbVars>>

background_scrape_fail(s, ok) ==
    /\ req[s].pc = "fail" /\ req[s].kind = "scrape"
    /\ jobs' = update_job_status(jobs, s, "failed",
                   Patch({"error"}, "scrape_error", Null, Null), ok)
    /\ Goto(s, "done")
    /\ UNCHANGED <<credits, storeVars, can, upd, wd, now, ledger, busVars, regVars, call, cbVars>>

\* --------------------------------------------------- user_scraping_jobs
\* The dict is read and written by the handlers and the runner threads with no
\* lock. A user without a key is a user with the empty list.
\* thread.is_alive(): started by the handler, and its finally block not over.
is_alive(s) ==
    req[s].kind = "scrape" /\ req[s].resp = "success" /\ reg[s].f # "over"

\* The handler, before it creates the job: user_jobs = user_scraping_jobs[username]
\* and the list of its entries whose thread is alive.
ScrapePosts_cleanup_read(s) ==
    /\ req[s].pc = "create" /\ req[s].kind = "scrape" /\ reg[s].h = "none"
    /\ reg' = [reg EXCEPT ![s] =
                 IF user_scraping_jobs[req[s].user] = <<>>
                    THEN [@ EXCEPT !.h = "cleaned"]
                    ELSE [@ EXCEPT !.h = "read",
                                   !.list = SelectSeq(user_scraping_jobs[req[s].user],
                                                      is_alive)]]
    /\ UNCHANGED <<credits, jobs, storeVars, req, can, upd, wd, now, ledger, busVars,
                   user_scraping_jobs, call, cbVars>>

\* user_scraping_jobs[username] = alive_jobs, or del when it is empty
ScrapePosts_cleanup_write(s) ==
    /\ reg[s].h = "read"
    /\ user_scraping_jobs' = [user_scraping_jobs EXCEPT ![req[s].user] = reg[s].list]
    /\ reg' = [reg EXCEPT ![s].h = "cleaned"]
    /\ UNCHANGED <<credits, jobs, storeVars, req, can, upd, wd, now, ledger, busVars, call, cbVars>>

\* user_scraping_jobs[username].append(job_data)
track(list, job_id) == Append(list, job_id)

\* The handler, after thread.start(): the entry of the job is appended.
ScrapePosts_track(s) ==
    /\ req[s].kind = "scrape" /\ req[s].resp = "success" /\ reg[s].h = "cleaned"
    /\ user_scraping_jobs' = [user_scraping_jobs EXCEPT ![req[s].user] = track(@, s)]
    /\ reg' = [reg EXCEPT ![s].h = "tracked"]
    /\ UNCHANGED <<credits, jobs, storeVars, req, can, upd, wd, now, ledger, busVars, call, cbVars>>

\* The finally block of background_scrape: user_jobs = user_scraping_jobs[username]
\* and the list of its entries of other jobs.
background_scrape_finally_read(s) ==
    /\ req[s].pc = "done" /\ req[s].kind = "scrape" /\ req[s].resp = "success"
    /\ reg[s].f = "none"
    /\ reg' = [reg EXCEPT ![s] =
                 IF user_scraping_jobs[req[s].user] = <<>>
                    THEN [@ EXCEPT !.f = "over"]
                    ELSE [@ EXCEPT !.f = "read",
                                   !.list = SelectSeq(user_scraping_jobs[req[s].user],
                                                      LAMBDA j : j # s)]]
    /\ UNCHANGED <<credits, jobs, storeVars, req, can, upd, wd, now, ledger, busVars,
                   user_scraping_jobs, call, cbVars>>

\* user_scraping_jobs[username] = that list, and del when it is empty
background_scrape_finally_write(s) ==
    /\ reg[s].f = "read"
    /\ user_scraping_jobs' = [user_scraping_jobs EXCEPT ![req[s].user] = reg[s].list]
    /\ reg' = [reg EXCEPT ![s].f = "over"]
    /\ UNCHANGED <<credits, jobs, storeVars, req, can, upd, wd, now, ledger, busVars, call, cbVars>>

\* GetStatus.get: scrape_in_progress, whether some entry of the user's list
\* has a thread that is alive.
GetStatus_get(u) ==
    \E i \in 1..Len(user_scraping_jobs[u]) : is_alive(user_scraping_jobs[u][i])

\* ------------------------------------------------------ request validation
\* The body of the request in slot s carries req[s].product as its product (or
\* first of its products, or topic) and a context of req[s].context characters.
ContextLimit == 500

\* (data.get("product") or "").strip()
stripped(product) == IF product = "  " THEN "" ELSE product

\* (data.get("recommendation_type") or "improve_product").strip().lower()
recommendation_type_of(rtype) ==
    IF rtype = "none" THEN "improve_product"
    ELSE IF rtype = " New_Feature" THEN "new_feature"
    ELSE rtype

\* (a validation without the length check of the context)
Recommendations_invalid_no_context_check(product, rtype, context) ==
    IF stripped(product) = "" THEN "product_required"
    ELSE IF recommendation_type_of(rtype) \notin RecTypes THEN "invalid_recommendation_type"
    ELSE "none"

\* The 400 answers of Recommendations.post before it reads the store.
Recommendations_invalid(product, rtype, context) ==
    IF stripped(product) = "" THEN "product_required"
    ELSE IF recommendation_type_of(rtype) \notin RecTypes THEN "invalid_recommendation_type"
    ELSE IF context > ContextLimit THEN "context_too_long"
    ELSE "none"

\* A handler's early return of a 400: nothing but the answer.
Rejected(s, u, kind, resp) ==
    /\ req[s].pc = "idle"
    /\ req' = [req EXCEPT ![s] = Return([@ EXCEPT !.user = u, !.kind = kind], 400, resp)]
    /\ UNCHANGED <<credits, jobs, storeVars, can, upd, wd, now, ledger, busVars, regVars, call, cbVars>>

\* RunAnalysis.post from its first line.
RunAnalysis_received(s, u, regenerate) ==
    IF stripped(req[s].product) = ""
       THEN Rejected(s, u, "analysis", "product_required")
       ELSE RunAnalysis_post(s, u, regenerate)

\* Recommendations.post from its first line.
Recommendations_received(s, u, rtype, regenerate) ==
    IF Recommendations_invalid(req[s].product, rtype, req[s].context) # "none"
       THEN Rejected(s, u, "recommendations",
                     Recommendations_invalid(req[s].product, rtype, req[s].context))
       ELSE Recommendations_post(s, u, recommendation_type_of(rtype), regenerate)

\* ScrapePosts.post from its first line.
ScrapePosts_received(s, u, limit, time_filter) ==
    IF stripped(req[s].product) = ""
       THEN Rejected(s, u, "scrape", "topic_required")
       ELSE ScrapePosts_post(s, u, limit, time_filter)

\* ============================================================ CancelJob.post
IdleCancel == [pc |-> "idle", user |-> "nobody", job |-> 0, seen |-> "none",
               http |-> 0, resp |-> "none"]

\* (a check that refuses completed jobs only)
Cancellable_not_completed == {"pending", "in_progress", "failed", "cancelled"}

Cancellable == {"pending", "in_progress"}

\* find_one of the job, then the not-found, ownership and status checks.
CancelJob_post(c, u, j) ==
    /\ can[c].pc = "idle"
    /\ LET r == [can[c] EXCEPT !.user = u, !.job = j, !.seen = jobs[j].status]
       IN  can' = [can EXCEPT ![c] =
                IF jobs[j].status = "none" THEN Return(r, 404, "not_found")
                ELSE IF jobs[j].user_id # u THEN Return(r, 403, "forbidden")
                ELSE IF jobs[j].status \notin Cancellable
                        THEN Return(r, 400, "not_cancellable")
                ELSE [r EXCEPT !.pc = "write"]]
    /\ UNCHANGED <<credits, jobs, storeVars, req, upd, wd, now, ledger, busVars, regVars, call, cbVars>>

\* update_job_status(job, 'cancelled', completed_at=now, error=...)
CancelJob_write(c, ok) ==
    /\ can[c].pc = "write"
    /\ jobs' = update_job_status(jobs, can[c].job, "cancelled",
                   Patch({"error", "completed_at"}, "cancelled_by_user", Null, now), ok)
    /\ can' = [can EXCEPT ![c] =
            IF update_job_status_returns(jobs, can[c].job, "cancelled", ok)
               THEN [@ EXCEPT !.pc = "refund"]
               ELSE Return(@, 500, "update_failed")]
    /\ UNCHANGED <<credits, storeVars, req, upd, wd, now, ledger, busVars, regVars, call, cbVars>>

\* The refund: find_one_and_update({"username": u}, {"$inc": {"credits": 1}})
\* (a refund of the price of the job's type)
cancel_refund_by_type(job) ==
    IF job.type = "recommendations" THEN FirstTimeRecCost ELSE CancelRefund

cancel_refund(job) == CancelRefund

CancelJob_refund(c) ==
    /\ can[c].pc = "refund"
    /\ credits' = credit_credits(credits, can[c].user, cancel_refund(jobs[can[c].job]))
    /\ Booked(can[c].job, "cancel", cancel_refund(jobs[can[c].job]))
    /\ can' = [can EXCEPT ![c] = Return(@, 200, "cancelled")]
    /\ UNCHANGED <<jobs, storeVars, req, upd, wd, now, busVars, regVars, call, cbVars>>

\* ==================================================== UpdateUserCredits.post
IdleUpdate == [pc |-> "idle", user |-> "nobody", operation |-> "none",
               amount |-> 0, old_credits |-> 0, http |-> 0, resp |-> "none"]

Operations == {"add", "deduct", "set"}

\* The read of the user (find_one) and, for a deduct, the check of old_credits.
UpdateUserCredits_post(u, operation, amount) ==
    /\ upd.pc = "idle"
    /\ LET r == [upd EXCEPT !.user = u, !.operation = operation, !.amount = amount,
                            !.old_credits = credits[u]]
       IN  upd' = IF operation = "deduct" /\ r.old_credits < amount
                     THEN Return(r, 400, "insufficient_credits")
                     ELSE [r EXCEPT !.pc = "write"]
    /\ UNCHANGED <<credits, jobs, storeVars, req, can, wd, now, ledger, busVars, regVars, call, cbVars>>

\* update_operation applied by find_one_and_update({"username": u}, ...)
update_operation(c, operation, amount) ==
    CASE operation = "add" -> c + amount
      [] operation = "deduct" -> c - amount
      [] OTHER -> amount

UpdateUserCredits_write ==
    /\ upd.pc = "write"
    /\ credits' = [credits EXCEPT ![upd.user] =
                      update_operation(@, upd.operation, upd.amount)]
    /\ upd' = Return(upd, 200, "success")
    /\ UNCHANGED <<jobs, storeVars, req, can, wd, now, ledger, busVars, regVars, call, cbVars>>

\* ========================================================= deduct_user_credits
\* The find_one of the user and the check of available against amount.
deduct_user_credits_read(u, amount) ==
    /\ upd.pc = "idle"
    /\ LET r == [upd EXCEPT !.user = u, !.operation = "deduct_user_credits",
                            !.amount = amount, !.old_credits = credits[u]]
       IN  upd' = IF r.old_credits < amount
                     THEN Return(r, 0, "false")
                     ELSE [r EXCEPT !.pc = "set"]
    /\ UNCHANGED <<credits, jobs, storeVars, req, can, wd, now, ledger, busVars, regVars, call, cbVars>>

\* update_one({"username": u}, {"$set": {"credits": available - amount}});
\* the result is modified_count == 1.
deduct_user_credits_write ==
    /\ upd.pc = "set"
    /\ credits' = [credits EXCEPT ![upd.user] = upd.old_credits - upd.amount]
    /\ upd' = Return(upd, 0, IF credits'[upd.user] # credits[upd.user]
                                THEN "true" ELSE "false")
    /\ UNCHANGED <<jobs, storeVars, req, can, wd, now, ledger, busVars, regVars, call, cbVars>>

\* ================================================ MongoDBStore.check_stuck_jobs
cutoff_time == now - TimeoutMinutes

\* (the first find with "$lte" for "$lt")
stuck_in_progress_inclusive ==
    {j \in Slots : /\ jobs[j].status = "in_progress"
                   /\ jobs[j].started_at # Null
                   /\ jobs[j].started_at <= cutoff_time}

stuck_in_progress ==
    {j \in Slots : /\ jobs[j].status = "in_progress"
                   /\ jobs[j].started_at # Null
                   /\ jobs[j].started_at < cutoff_time}

\* (a sweep without its second find)
stuck_pending_none == {}

stuck_pending ==
    {j \in Slots : /\ jobs[j].status = "pending"
                   /\ jobs[j].created_at # Null
                   /\ jobs[j].created_at < cutoff_time}

\* The first find: jobs in_progress with started_at before the cutoff.
check_stuck_jobs_find_in_progress ==
    /\ wd.pc = "idle"
    /\ wd' = [pc |-> "in_progress", list |-> stuck_in_progress]
    /\ UNCHANGED <<credits, jobs, storeVars, req, can, upd, now, ledger, busVars, regVars, call, cbVars>>

\* (a sweep that also refunds the reaped job's debit to its owner)
check_stuck_jobs_mark_refund(j, ok) ==
    /\ wd.pc \in {"in_progress", "pending"}
    /\ j \in wd.list
    /\ jobs' = update_job_status(jobs, j, "failed",
                   Patch({"error", "completed_at"},
                         IF wd.pc = "pending" THEN "timed_out_pending" ELSE "timed_out",
                         Null, now), ok)
    /\ credits' = credit_credits(credits, jobs[j].user_id, ledger[j].debited)
    /\ wd' = [wd EXCEPT !.list = @ \ {j}]
    /\ UNCHANGED <<storeVars, req, can, upd, now, ledger, busVars, regVars, call, cbVars>>

\* One iteration of either loop: update_job_status(job_id, 'failed', ...)
check_stuck_jobs_mark(j, ok) ==
    /\ wd.pc \in {"in_progress", "pending"}
    /\ j \in wd.list
    /\ jobs' = update_job_status(jobs, j, "failed",
                   Patch({"error", "completed_at"},
                         IF wd.pc = "pending" THEN "timed_out_pending" ELSE "timed_out",
                         Null, now), ok)
    /\ wd' = [wd EXCEPT !.list = @ \ {j}]
    /\ UNCHANGED <<credits, storeVars, req, can, upd, now, ledger, busVars, regVars, call, cbVars>>

\* The second find: jobs pending with created_at before the cutoff.
check_stuck_jobs_find_pending ==
    /\ wd.pc = "in_progress" /\ wd.list = {}
    /\ wd' = [pc |-> "pending", list |-> stuck_pending]
    /\ UNCHANGED <<credits, jobs, storeVars, req, can, upd, now, ledger, busVars, regVars, call, cbVars>>

check_stuck_jobs_return ==
    /\ wd.pc = "pending" /\ wd.list = {}
    /\ wd' = [pc |-> "idle", list |-> {}]
    /\ UNCHANGED <<credits, jobs, storeVars, req, can, upd, now, ledger, busVars, regVars, call, cbVars>>

\* Time passes.
Tick ==
    /\ now < MaxTime
    /\ now' = now + 1
    /\ UNCHANGED <<credits, jobs, storeVars, req, can, upd, wd, ledger, busVars, regVars, call, cbVars>>

\* A runner is a daemon thread (Thread(..., daemon=True)) that calls the
\* scraper or the analyzer: it can be lost before it starts, or block for good
\* in its external call, and then never writes again. These are the jobs the
\* watchdog is there for.
StuckPcs == {"run0", "run1"}

Stuck(s) ==
    /\ req[s].pc \in StuckPcs
    /\ Goto(s, "stuck")
    /\ UNCHANGED <<credits, jobs, storeVars, can, upd, wd, now, ledger, busVars, regVars, call, cbVars>>

\* =============================================== append_job_log and the log bus
\* The steps background_scrape logs, in the order of its body: before the
\* searches; after its posts are saved; after its completed write; and, in its
\* exception handlers, before its failed write.
ScrapeSteps == <<"subreddits", "search_queries", "find_posts">>

next_log_step(s) ==
    IF req[s].kind # "scrape" THEN "none"
    ELSE IF req[s].pc = "run1" /\ app[s].k < Len(ScrapeSteps) THEN ScrapeSteps[app[s].k + 1]
    ELSE IF req[s].pc = "complete" /\ app[s].last # "save_posts" THEN "save_posts"
    ELSE IF req[s].pc = "fail" /\ app[s].last # "failed" THEN "failed"
    ELSE IF req[s].pc = "done" /\ app[s].last = "save_posts" THEN "completed"
    ELSE "none"

\* (the entry put at the head of the array)
push_entry_front(logs, entry) == <<entry>> \o logs

\* update_one({"_id": job_id}, {"$push": {"logs": entry}})
push_entry(logs, entry) == Append(logs, entry)

\* (an append_job_log that calls on_job_log whatever its update_one did)
append_job_log_always_calls(s, ok) ==
    /\ next_log_step(s) # "none" /\ ~app[s].emit
    /\ LET entry == [step |-> next_log_step(s), timestamp |-> now]
           pushed == ok /\ jobs[s].status # "none"
       IN  /\ jobs' = IF pushed THEN [jobs EXCEPT ![s].logs = push_entry(@, entry)]
                                ELSE jobs
           /\ app' = [app EXCEPT ![s] = [k |-> @.k + 1, last |-> entry.step,
                                         timestamp |-> entry.timestamp,
                                         emit |-> TRUE, called |-> @.called]]
    /\ UNCHANGED <<credits, storeVars, req, can, upd, wd, now, ledger, rooms, inbox, regVars, call, cbVars>>

\* append_job_log up to its update_one. ok = FALSE: the update raised or
\* modified nothing; the call returns False and publishes nothing.
append_job_log(s, ok) ==
    /\ next_log_step(s) # "none" /\ ~app[s].emit
    /\ LET entry == [step |-> next_log_step(s), timestamp |-> now]
           pushed == ok /\ jobs[s].status # "none"
       IN  /\ jobs' = IF pushed THEN [jobs EXCEPT ![s].logs = push_entry(@, entry)]
                                ELSE jobs
           /\ app' = [app EXCEPT ![s] = [k |-> @.k + 1, last |-> entry.step,
                                         timestamp |-> entry.timestamp,
                                         emit |-> pushed, called |-> @.called]]
    /\ UNCHANGED <<credits, storeVars, req, can, upd, wd, now, ledger, rooms, inbox, regVars, call, cbVars>>

\* (an emit without its room argument)
room_members_everyone(j) == Clients

\* The clients socketio.emit(..., room=str(job_id)) reaches.
room_members(j) == rooms[j]

\* The on_job_log callback of append_job_log: _emit_job_log(job_id, entry).
\* ok = FALSE: socketio.emit raised, which _emit_job_log swallows.
emit_job_log(s, ok) ==
    /\ app[s].emit
    /\ LET entry == [step |-> app[s].last, timestamp |-> app[s].timestamp]
       IN  inbox' = [c \in Clients |->
                       IF ok /\ c \in room_members(s)
                          THEN Append(inbox[c], [job_id |-> s, log |-> entry])
                          ELSE inbox[c]]
    /\ app' = [app EXCEPT ![s].emit = FALSE, ![s].called = @ + 1]
    /\ UNCHANGED <<credits, jobs, storeVars, req, can, upd, wd, now, ledger, rooms, regVars, call, cbVars>>

\* @socketio.on("subscribe_job"): join_room(str(job_id))
handle_subscribe_job(c, j) ==
    /\ rooms' = [rooms EXCEPT ![j] = @ \cup {c}]
    /\ UNCHANGED <<credits, jobs, storeVars, req, can, upd, wd, now, ledger, inbox, app, regVars, call, cbVars>>

\* @socketio.on("unsubscribe_job"): leave_room(str(job_id))
handle_unsubscribe_job(c, j) ==
    /\ rooms' = [rooms EXCEPT ![j] = @ \ {c}]
    /\ UNCHANGED <<credits, jobs, storeVars, req, can, upd, wd, now, ledger, inbox, app, regVars, call, cbVars>>

\* ================================================== GetClaudeAnalysis.get
NoAnalysis == <<"nobody", "none">>

\* The answers the handler can give: the document of the find_one by user_id
\* and product (the same document as the one by _id "user:product"); failing
\* that, a document of the find_one by product alone, whichever the store
\* returns; failing that, 404. (No document has the product alone as its _id:
\* every save passes a user_id.)
GetClaudeAnalysis_get(as, u, product) ==
    LET product_key == product_normalized(product)
    IN  IF <<u, product_key>> \in as
           THEN {[http |-> 200, resp |-> "success", analysis |-> <<u, product_key>>]}
        ELSE IF \E d \in as : d[2] = product_key
           THEN {[http |-> 200, resp |-> "success", analysis |-> d] :
                    d \in {e \in as : e[2] = product_key}}
        ELSE {[http |-> 404, resp |-> "not_found", analysis |-> NoAnalysis]}

\* ===================================================== GetJobDetails.get
\* (the handler without its ownership check)
GetJobDetails_get_any_user(js, u, j) ==
    IF js[j].status = "none"
       THEN [http |-> 404, resp |-> "not_found", job |-> NoJob]
       ELSE [http |-> 200, resp |-> "success", job |-> js[j]]

\* find_one of the job, the not-found and ownership checks, then the job
\* document itself as the response (slot j without a job: an unknown id).
GetJobDetails_get(js, u, j) ==
    IF js[j].status = "none"
       THEN [http |-> 404, resp |-> "not_found", job |-> NoJob]
    ELSE IF js[j].user_id # u
       THEN [http |-> 403, resp |-> "forbidden", job |-> NoJob]
    ELSE [http |-> 200, resp |-> "success", job |-> js[j]]

\* ============================================================ CircuitBreaker
\* The threads that use the breaker.
Callers == {"t1", "t2"}

\* __init__. lock: "free" or the thread that holds it. streak: the expected
\* failures recorded since the last recorded success or reset.
NewBreaker ==
    [state |-> "CLOSED", failure_count |-> 0, success_count |-> 0,
     last_failure_time |-> Null, lock |-> "free", streak |-> 0]

\* A thread outside the breaker. invoked: whether its call has run func;
\* result: how its last method ended.
IdleCaller == [pc |-> "idle", invoked |-> FALSE, result |-> "none"]

Enter(t, pc) == caller' = [caller EXCEPT ![t] = [pc |-> pc, invoked |-> FALSE, result |-> "none"]]

Leave(t, result) == caller' = [caller EXCEPT ![t].pc = "done", ![t].result = result]

OtherVars ==
    <<credits, jobs, storeVars, req, can, upd, wd, now, ledger, busVars, regVars, call>>

\* call(): the read of self.state.
CircuitBreaker_call(t) ==
    /\ caller[t].pc = "idle"
    /\ Enter(t, IF cb.state = "OPEN" THEN "open" ELSE "func")
    /\ UNCHANGED <<cb, OtherVars>>

\* last_failure_time and (time.time() - last_failure_time) > timeout
recovery_due(last_failure_time, t) ==
    last_failure_time # Null /\ (t - last_failure_time) > timeout

\* call(), state read as OPEN: the test of the time since the last failure.
CircuitBreaker_call_open(t) ==
    /\ caller[t].pc = "open"
    /\ caller' = [caller EXCEPT ![t].pc =
                     IF recovery_due(cb.last_failure_time, now) THEN "half_open" ELSE "raise"]
    /\ UNCHANGED <<cb, OtherVars>>

\* raise CircuitBreakerOpenError(f"... {timeout - (time.time() - last_failure_time)}"):
\* the message reads last_failure_time again, a TypeError when it is None.
CircuitBreaker_call_raise(t) ==
    /\ caller[t].pc = "raise"
    /\ Leave(t, IF cb.last_failure_time = Null THEN "TypeError"
                                              ELSE "CircuitBreakerOpenError")
    /\ UNCHANGED <<cb, OtherVars>>

\* with self.lock: if self.state == 'OPEN': HALF_OPEN, success_count = 0
CircuitBreaker_call_half_open(t) ==
    /\ caller[t].pc = "half_open"
    /\ cb.lock = "free"
    /\ cb' = IF cb.state = "OPEN"
                THEN [cb EXCEPT !.state = "HALF_OPEN", !.success_count = 0]
                ELSE cb
    /\ caller' = [caller EXCEPT ![t].pc = "func"]
    /\ UNCHANGED OtherVars

\* func(*args, **kwargs): it returns, raises an expected exception or raises
\* another one, which is re-raised with nothing recorded.
FuncOutcomes == {"returns", "expected_exception", "other_exception"}

CircuitBreaker_call_func(t, outcome) ==
    /\ caller[t].pc = "func"
    /\ caller' = [caller EXCEPT ![t] =
                     CASE outcome = "returns" -> [@ EXCEPT !.invoked = TRUE, !.pc = "record_success"]
                       [] outcome = "expected_exception" ->
                             [@ EXCEPT !.invoked = TRUE, !.pc = "record_failure"]
                       [] OTHER -> [@ EXCEPT !.invoked = TRUE, !.pc = "done",
                                             !.result = "other_exception"]]
    /\ UNCHANGED <<cb, OtherVars>>

\* (a record_success that leaves failure_count alone in CLOSED)
record_success_keeps_count(t) ==
    /\ caller[t].pc = "record_success"
    /\ cb.lock = "free"
    /\ IF cb.state = "HALF_OPEN"
          THEN IF cb.success_count + 1 >= 2
                  THEN /\ cb' = [cb EXCEPT !.success_count = @ + 1, !.streak = 0,
                                           !.lock = t]
                       /\ caller' = [caller EXCEPT ![t].pc = "reset"]
                  ELSE /\ cb' = [cb EXCEPT !.success_count = @ + 1, !.streak = 0]
                       /\ Leave(t, "returned")
          ELSE /\ cb' = [cb EXCEPT !.streak = 0]
               /\ Leave(t, "returned")
    /\ UNCHANGED OtherVars

\* record_success, its body under the lock. In HALF_OPEN with the second
\* success it calls self.reset() with the lock held: the thread goes on to
\* reset's own "with self.lock" as the holder of the lock.
record_success(t) ==
    /\ caller[t].pc = "record_success"
    /\ cb.lock = "free"
    /\ IF cb.state = "HALF_OPEN"
          THEN IF cb.success_count + 1 >= 2
                  THEN /\ cb' = [cb EXCEPT !.success_count = @ + 1, !.streak = 0,
                                           !.lock = t]
                       /\ caller' = [caller EXCEPT ![t].pc = "reset"]
                  ELSE /\ cb' = [cb EXCEPT !.success_count = @ + 1, !.streak = 0]
                       /\ Leave(t, "returned")
          ELSE /\ cb' = [cb EXCEPT !.streak = 0,
                                   !.failure_count = IF cb.state = "CLOSED" THEN 0 ELSE @]
               /\ Leave(t, "returned")
    /\ UNCHANGED OtherVars

\* record_failure, its body under the lock; call() then re-raises.
record_failure(t) ==
    /\ caller[t].pc = "record_failure"
    /\ cb.lock = "free"
    /\ LET counted == [cb EXCEPT !.failure_count = @ + 1, !.last_failure_time = now,
                                 !.streak = @ + 1]
       IN  cb' = IF cb.state = "HALF_OPEN"
                    THEN [counted EXCEPT !.state = "OPEN",
                                         !.failure_count = failure_threshold]
                 ELSE IF counted.failure_count >= failure_threshold
                    THEN [counted EXCEPT !.state = "OPEN"]
                 ELSE counted
    /\ Leave(t, "expected_exception")
    /\ UNCHANGED OtherVars

\* A thread calls reset().
CircuitBreaker_reset(t) ==
    /\ caller[t].pc = "idle"
    /\ Enter(t, "reset")
    /\ UNCHANGED <<cb, OtherVars>>

\* reset, its body under the lock, which is a threading.Lock: the thread
\* waits for it to be free, whoever holds it.
reset(t) ==
    /\ caller[t].pc = "reset"
    /\ cb.lock = "free"
    /\ cb' = [cb EXCEPT !.state = "CLOSED", !.failure_count = 0,
                        !.last_failure_time = Null, !.success_count = 0, !.streak = 0]
    /\ Leave(t, "returned")
    /\ UNCHANGED OtherVars

\* The method is over; the thread may use the breaker again.
CircuitBreaker_return(t) ==
    /\ caller[t].pc = "done"
    /\ caller' = [caller EXCEPT ![t] = IdleCaller]
    /\ UNCHANGED <<cb, OtherVars>>

\* ============================================================ specifications
Cancels == {1, 2}

\* The stores the server starts from: empty, or holding posts, analysis, pain
\* points and improve_product recommendations of every user for either
\* product.
InitStore(populated) ==
    /\ posts = populated
    /\ analyses = IF populated THEN Users \X Products ELSE {}
    /\ pain_points = IF populated THEN Users \X Products ELSE {}
    /\ recommendations =
          IF populated
             THEN {RecDoc(u, pr, "improve_product") : u \in Users, pr \in {RequestProduct, OtherProduct}}
             ELSE {}

Init ==
    /\ \E c \in 0..MaxCredits : credits = [u \in Users |-> c]
    /\ \E populated \in BOOLEAN : InitStore(populated)
    /\ jobs = [j \in Slots |-> NoJob]
    /\ req = [s \in Slots |-> IdleReq]
    /\ can = [c \in Cancels |-> IdleCancel]
    /\ upd = IdleUpdate
    /\ wd = [pc |-> "idle", list |-> {}]
    /\ now = 0
    /\ ledger = [s \in Slots |-> NoLedger]
    /\ rooms = [j \in Slots |-> {}]
    /\ inbox = [c \in Clients |-> <<>>]
    /\ app = [s \in Slots |-> NoAppends]
    /\ user_scraping_jobs = [u \in Users |-> <<>>]
    /\ reg = [s \in Slots |-> NoReg]
    /\ call = IdleCall
    /\ cb = NewBreaker
    /\ caller = [t \in Callers |-> IdleCaller]

\* (limit, time_filter) of the scrape requests: costs 1 and 8, and an invalid filter
ScrapeInputs == {<<10, "week">>, <<100, "year">>, <<100, "decade">>}

Analysis(s, U) ==
    \/ \E u \in U, g \in BOOLEAN : RunAnalysis_post(s, u, g)
    \/ RunAnalysis_debit(s)
    \/ RunAnalysis_clear(s, TRUE, TRUE, TRUE)
    \/ \E ok \in BOOLEAN : RunAnalysis_create(s, ok)
    \/ RunAnalysis_compensate(s)
    \/ \E ok \in BOOLEAN : background_analysis_start(s, ok)
    \/ \E o \in {"ok", "ok_skip", "error", "exception"} : background_analysis_work(s, o)
    \/ \E ok \in BOOLEAN : background_analysis_complete(s, ok)
    \/ \E ok \in BOOLEAN : background_analysis_fail(s, ok)
    \/ background_analysis_refund(s)

Recs(s, U) ==
    \/ \E u \in U, t \in RecTypes, g \in BOOLEAN : Recommendations_post(s, u, t, g)
    \/ Recommendations_debit(s)
    \/ \E ok \in BOOLEAN : Recommendations_create(s, ok)
    \/ Recommendations_compensate(s)
    \/ \E ok \in BOOLEAN : background_recommendations_start(s, ok)
    \/ \E o \in {"ok", "error", "save_failed", "exception"} :
          background_recommendations_work(s, o)
    \/ \E ok \in BOOLEAN : background_recommendations_complete(s, ok)
    \/ \E ok \in BOOLEAN : background_recommendations_fail(s, ok)
    \/ background_recommendations_refund(s)

Scrape(s, U) ==
    \/ \E u \in U, i \in ScrapeInputs : ScrapePosts_post(s, u, i[1], i[2])
    \/ \E ok \in BOOLEAN : ScrapePosts_create(s, ok)
    \/ \E client_ok, ok \in BOOLEAN : ScrapePosts_init(s, client_ok, ok)
    \/ \E ok \in BOOLEAN : background_scrape_start(s, ok)
    \/ \E o \in {"ok", "empty", "exception"} : background_scrape_work(s, o)
    \/ \E ok \in BOOLEAN : background_scrape_complete(s, ok)
    \/ \E ok \in BOOLEAN : background_scrape_fail(s, ok)

Cancel(c) ==
    \/ \E u \in Users, j \in Slots : CancelJob_post(c, u, j)
    \/ \E ok \in BOOLEAN : CancelJob_write(c, ok)
    \/ CancelJob_refund(c)

UpdateCredits(U) ==
    \/ \E u \in U, op \in Operations, a \in 0..MaxAmount : UpdateUserCredits_post(u, op, a)
    \/ UpdateUserCredits_write

Watchdog ==
    \/ check_stuck_jobs_find_in_progress
    \/ \E j \in Slots, ok \in BOOLEAN : check_stuck_jobs_mark(j, ok)
    \/ check_stuck_jobs_find_pending
    \/ check_stuck_jobs_return

Next ==
    \/ \E s \in {1} : Analysis(s, {"alice"}) \/ Recs(s, {"alice"}) \/ Scrape(s, {"alice"})
    \/ \E s \in {1} : Stuck(s)
    \/ \E c \in {1} : Cancel(c)
    \/ Watchdog
    \/ Tick

Spec == Init /\ [][Next]_vars

\* The same system for progress: threads that can run do run, the watchdog
\* loop never ends and time passes. A write that fails, and a runner that
\* blocks, happen at time 0, early enough for the clock of the model to reach
\* their timeout.
Oks == IF now = 0 THEN BOOLEAN ELSE {TRUE}

RequestLive(s) ==
    \/ \E g \in BOOLEAN : RunAnalysis_post(s, "alice", g)
    \/ RunAnalysis_debit(s)
    \/ RunAnalysis_clear(s, TRUE, TRUE, TRUE)
    \/ \E ok \in BOOLEAN : RunAnalysis_create(s, ok)
    \/ RunAnalysis_compensate(s)
    \/ \E g \in BOOLEAN : Recommendations_post(s, "alice", "new_feature", g)
    \/ Recommendations_debit(s)
    \/ \E ok \in BOOLEAN : Recommendations_create(s, ok)
    \/ Recommendations_compensate(s)
    \/ ScrapePosts_post(s, "alice", 10, "week")
    \/ \E ok \in BOOLEAN : ScrapePosts_create(s, ok)
    \/ \E client_ok \in BOOLEAN, ok \in Oks : ScrapePosts_init(s, client_ok, ok)

RunnerLive(s) ==
    \/ \E ok \in Oks : background_analysis_start(s, ok)
    \/ \E o \in {"ok", "error", "exception"} : background_analysis_work(s, o)
    \/ \E ok \in Oks : background_analysis_complete(s, ok)
    \/ \E ok \in Oks : background_analysis_fail(s, ok)
    \/ background_analysis_refund(s)
    \/ \E ok \in Oks : background_recommendations_start(s, ok)
    \/ \E o \in {"ok", "error", "exception"} : background_recommendations_work(s, o)
    \/ \E ok \in Oks : background_recommendations_complete(s, ok)
    \/ \E ok \in Oks : background_recommendations_fail(s, ok)
    \/ background_recommendations_refund(s)
    \/ \E ok \in Oks : background_scrape_start(s, ok)
    \/ \E o \in {"ok", "exception"} : background_scrape_work(s, o)
    \/ \E ok \in Oks : background_scrape_complete(s, ok)
    \/ \E ok \in Oks : background_scrape_fail(s, ok)

CancelLive(c) ==
    \/ CancelJob_post(c, "alice", 1)
    \/ \E ok \in Oks : CancelJob_write(c, ok)
    \/ CancelJob_refund(c)

WatchdogLive ==
    \/ check_stuck_jobs_find_in_progress
    \/ \E j \in Slots, ok \in Oks : check_stuck_jobs_mark(j, ok)
    \/ check_stuck_jobs_find_pending
    \/ check_stuck_jobs_return

NextLive ==
    \/ RequestLive(1)
    \/ RunnerLive(1)
    \/ now = 0 /\ Stuck(1)
    \/ \E c \in {1} : CancelLive(c)
    \/ WatchdogLive
    \/ Tick

\* A user who can pay for nothing, or for one first-time recommendation.
InitLive == Init /\ credits["alice"] \in {0, FirstTimeRecCost}

SpecLive ==
    /\ InitLive /\ [][NextLive]_vars
    /\ WF_vars(RunnerLive(1)) /\ WF_vars(WatchdogLive) /\ WF_vars(Tick)

\* A scrape job with its runner and the entries it logs. The runner is one
\* thread: it goes on only when its last append_job_log call has returned.
\* Alice's job is in slot 1 and bob's in slot 2.
LogOwner(s) == IF s = 1 THEN "alice" ELSE "bob"

ScrapeLogged(s, oks, outcomes) ==
    \/ ScrapePosts_post(s, LogOwner(s), 10, "week")
    \/ ScrapePosts_create(s, TRUE)
    \/ ScrapePosts_init(s, TRUE, TRUE)
    \/ background_scrape_start(s, TRUE)
    \/ \E ok \in oks : append_job_log(s, ok)
    \/ \E ok \in oks : emit_job_log(s, ok)
    \/ /\ next_log_step(s) = "none" /\ ~app[s].emit
       /\ \/ \E outcome \in outcomes : background_scrape_work(s, outcome)
          \/ background_scrape_complete(s, TRUE)
          \/ background_scrape_fail(s, TRUE)

\* One job, the clock, and bob's client subscribing to the job and leaving.
NextLog ==
    \/ ScrapeLogged(1, BOOLEAN, {"ok", "empty", "exception"})
    \/ handle_subscribe_job("bob", 1)
    \/ handle_unsubscribe_job("bob", 1)
    \/ Tick

InitLog == Init /\ credits["alice"] = 0 /\ ~posts

SpecLog == InitLog /\ [][NextLog]_vars

\* Two jobs and bob's client subscribing to either and leaving, the clock
\* standing still and every update_one and emit succeeding. Alice's searches
\* find posts, bob's raise.
Searches(s) == IF s = 1 THEN {"ok"} ELSE {"exception"}

NextBus ==
    \/ \E s \in Slots : ScrapeLogged(s, {TRUE}, Searches(s))
    \/ \E j \in Slots : handle_subscribe_job("bob", j)
    \/ \E j \in Slots : handle_unsubscribe_job("bob", j)

SpecBus == InitLog /\ [][NextBus]_vars

\* Analysis requests of either user, plain or regenerate, with their runners,
\* each delete of the regenerate clear succeeding or failing.
Regenerate(s) ==
    \/ \E u \in Users, g \in BOOLEAN : RunAnalysis_post(s, u, g)
    \/ RunAnalysis_debit(s)
    \/ \E oka, okp, okr \in BOOLEAN : RunAnalysis_clear(s, oka, okp, okr)
    \/ \E ok \in BOOLEAN : RunAnalysis_create(s, ok)
    \/ RunAnalysis_compensate(s)
    \/ background_analysis_start(s, TRUE)
    \/ \E o \in {"ok", "ok_skip", "error"} : background_analysis_work(s, o)
    \/ background_analysis_complete(s, TRUE)
    \/ background_analysis_fail(s, TRUE)
    \/ background_analysis_refund(s)

NextRegen == \E s \in Slots : Regenerate(s)

SpecRegen == Init /\ [][NextRegen]_vars

\* Calls of calculate_insight_cost on every limit up to MaxLimit and on the
\* known time filters, an unknown one and none: slot 1 holds the arguments
\* and then the value returned.
CostTimeFilters == ValidTimeFilters \cup {"decade", "none"}

InitCost ==
    /\ credits = [u \in Users |-> 0]
    /\ InitStore(FALSE)
    /\ jobs = [j \in Slots |-> NoJob]
    /\ \E limit \in 0..MaxLimit, time_filter \in CostTimeFilters :
          req = [s \in Slots |->
                   IF s = 1 THEN [IdleReq EXCEPT !.kind = "cost", !.limit = limit,
                                                 !.time_filter = time_filter]
                            ELSE IdleReq]
    /\ can = [c \in Cancels |-> IdleCancel]
    /\ upd = IdleUpdate
    /\ wd = [pc |-> "idle", list |-> {}]
    /\ now = 0
    /\ ledger = [s \in Slots |-> NoLedger]
    /\ rooms = [j \in Slots |-> {}]
    /\ inbox = [c \in Clients |-> <<>>]
    /\ app = [s \in Slots |-> NoAppends]
    /\ user_scraping_jobs = [u \in Users |-> <<>>]
    /\ reg = [s \in Slots |-> NoReg]
    /\ call = IdleCall
    /\ cb = NewBreaker
    /\ caller = [t \in Callers |-> IdleCaller]

calculate_insight_cost_call(s) ==
    /\ req[s].pc = "idle" /\ req[s].kind = "cost"
    /\ req' = [req EXCEPT ![s].pc = "done",
                          ![s].required_credits =
                               calculate_insight_cost(req[s].limit, req[s].time_filter)]
    /\ UNCHANGED <<credits, jobs, storeVars, can, upd, wd, now, ledger, busVars, regVars, call, cbVars>>

NextCost == calculate_insight_cost_call(1)

SpecCost == InitCost /\ [][NextCost]_vars

\* Two scrape requests of alice with their runners and the entries of
\* user_scraping_jobs they write.
ScrapeTracked(s) ==
    \/ ScrapePosts_post(s, "alice", 10, "week")
    \/ ScrapePosts_cleanup_read(s)
    \/ ScrapePosts_cleanup_write(s)
    \/ reg[s].h = "cleaned" /\ ScrapePosts_create(s, TRUE)
    \/ ScrapePosts_init(s, TRUE, TRUE)
    \/ ScrapePosts_track(s)
    \/ background_scrape_start(s, TRUE)
    \/ \E o \in {"ok", "exception"} : background_scrape_work(s, o)
    \/ background_scrape_complete(s, TRUE)
    \/ background_scrape_fail(s, TRUE)
    \/ background_scrape_finally_read(s)
    \/ background_scrape_finally_write(s)

NextTrack == \E s \in Slots : ScrapeTracked(s)

SpecTrack == Init /\ [][NextTrack]_vars

\* Scrape requests of either user with their runners, the searches taken query
\* by query, and the runner's writes succeeding or failing.
ScrapeQueried(s) ==
    \/ \E u \in Users : ScrapePosts_post(s, u, 10, "week")
    \/ ScrapePosts_create(s, TRUE)
    \/ ScrapePosts_init(s, TRUE, TRUE)
    \/ \E ok \in BOOLEAN : background_scrape_start(s, ok)
    \/ \E outcome \in QueryOutcomes : background_scrape_query(s, outcome)
    \/ \E saved \in 0..MaxQueries : background_scrape_save(s, saved)
    \/ \E ok \in BOOLEAN : background_scrape_complete(s, ok)

NextQueries == \E s \in Slots : ScrapeQueried(s)

SpecQueries == InitLog /\ [][NextQueries]_vars

\* Two threads calling through one breaker and resetting it, and the clock.
Breaker(t) ==
    \/ CircuitBreaker_call(t)
    \/ CircuitBreaker_call_open(t)
    \/ CircuitBreaker_call_raise(t)
    \/ CircuitBreaker_call_half_open(t)
    \/ \E outcome \in FuncOutcomes : CircuitBreaker_call_func(t, outcome)
    \/ record_success(t)
    \/ record_failure(t)
    \/ CircuitBreaker_reset(t)
    \/ reset(t)
    \/ CircuitBreaker_return(t)

NextBreaker ==
    \/ \E t \in Callers : Breaker(t)
    \/ Tick

SpecBreaker == InitLog /\ [][NextBreaker]_vars

\* Every thread inside a method of the breaker gets to take its next step
\* whenever it can: a thread waiting for the lock gets it once it is free.
SpecBreakerLive ==
    SpecBreaker /\ \A t \in Callers : WF_vars(Breaker(t) /\ caller[t].pc # "idle")

\* Requests of alice of the three kinds, well-formed or not, with their
\* runners. The product and the context of the request in each slot are drawn
\* at the start; its other parameters when it arrives.
RequestProducts == {"Slack", "  "}
ContextLengths == {0, ContextLimit + 1}
RecTypeInputs == RecTypes \cup {"none", " New_Feature", "bogus"}

InitReceived ==
    /\ \E c \in {0, MaxCredits} : credits = [u \in Users |-> c]
    /\ \E populated \in BOOLEAN : InitStore(populated)
    /\ jobs = [j \in Slots |-> NoJob]
    /\ \E pr \in [Slots -> RequestProducts], cx \in [Slots -> ContextLengths] :
          req = [s \in Slots |-> [IdleReq EXCEPT !.product = pr[s], !.context = cx[s]]]
    /\ can = [c \in Cancels |-> IdleCancel]
    /\ upd = IdleUpdate
    /\ wd = [pc |-> "idle", list |-> {}]
    /\ now = 0
    /\ ledger = [s \in Slots |-> NoLedger]
    /\ rooms = [j \in Slots |-> {}]
    /\ inbox = [c \in Clients |-> <<>>]
    /\ app = [s \in Slots |-> NoAppends]
    /\ user_scraping_jobs = [u \in Users |-> <<>>]
    /\ reg = [s \in Slots |-> NoReg]
    /\ call = IdleCall
    /\ cb = NewBreaker
    /\ caller = [t \in Callers |-> IdleCaller]

Received(s) ==
    \/ \E g \in BOOLEAN : RunAnalysis_received(s, "alice", g)
    \/ \E t \in RecTypeInputs, g \in BOOLEAN : Recommendations_received(s, "alice", t, g)
    \/ \E i \in ScrapeInputs : ScrapePosts_received(s, "alice", i[1], i[2])
    \/ RunAnalysis_debit(s)
    \/ RunAnalysis_clear(s, TRUE, TRUE, TRUE)
    \/ RunAnalysis_create(s, TRUE)
    \/ background_analysis_start(s, TRUE)
    \/ \E o \in {"ok", "error"} : background_analysis_work(s, o)
    \/ background_analysis_complete(s, TRUE)
    \/ background_analysis_fail(s, TRUE)
    \/ background_analysis_refund(s)
    \/ Recommendations_debit(s)
    \/ Recommendations_create(s, TRUE)
    \/ background_recommendations_start(s, TRUE)
    \/ \E o \in {"ok", "error"} : background_recommendations_work(s, o)
    \/ background_recommendations_complete(s, TRUE)
    \/ background_recommendations_fail(s, TRUE)
    \/ background_recommendations_refund(s)
    \/ ScrapePosts_create(s, TRUE)
    \/ ScrapePosts_init(s, TRUE, TRUE)
    \/ background_scrape_start(s, TRUE)
    \/ \E o \in {"ok", "exception"} : background_scrape_work(s, o)
    \/ background_scrape_complete(s, TRUE)
    \/ background_scrape_fail(s, TRUE)

NextReceived == \E s \in Slots : Received(s)

SpecReceived == InitReceived /\ [][NextReceived]_vars

\* Concurrent analysis and recommendations requests of one user, with their
\* runners.
NextAdmit ==
    \E s \in Slots : Analysis(s, {"alice"}) \/ Recs(s, {"alice"})

SpecAdmit == Init /\ [][NextAdmit]_vars

\* One start request of a user, its runner, and an UpdateUserCredits request
\* of the same user.
NextCredits ==
    \/ \E s \in {1} : Analysis(s, {"alice"}) \/ Recs(s, {"alice"}) \/ Scrape(s, {"alice"})
    \/ UpdateCredits({"alice"})

SpecCredits == Init /\ [][NextCredits]_vars

\* A deduction through deduct_user_credits.
Deduct(U) ==
    \/ \E u \in U, a \in 1..MaxAmount : deduct_user_credits_read(u, a)
    \/ deduct_user_credits_write

\* One start request of a user, its runner, and a deduction of the same user's
\* credits through UpdateUserCredits or deduct_user_credits.
NextDeduct ==
    \/ \E s \in {1} : Analysis(s, {"alice"}) \/ Recs(s, {"alice"})
    \/ UpdateCredits({"alice"})
    \/ Deduct({"alice"})

SpecDeduct == Init /\ [][NextDeduct]_vars

\* One analysis of alice and its runner, and two job.cancel requests.
NextCancel ==
    \/ \E s \in {1} : Analysis(s, {"alice"})
    \/ \E c \in Cancels : Cancel(c)

SpecCancel == Init /\ [][NextCancel]_vars

\* One analysis of alice and its runner, the clock, and one update_job_status
\* call on her job or on a job that does not exist.
NextRetry ==
    \/ \E s \in {1} : Analysis(s, {"alice"})
    \/ Tick
    \/ \E j \in Slots, status \in {"in_progress", "failed"}, db \in BOOLEAN :
          update_job_status_enter(j, status, db)
    \/ \E outcome \in Outcomes : update_job_status_attempt(outcome)

SpecRetry == Init /\ [][NextRetry]_vars

\* ==================================================================== claims
User(s) == req[s].user

\* Credits credited back on the account of the job of slot s, by anyone.
CreditedBack(s) == ledger[s].runner + ledger[s].cancel + ledger[s].dispatcher

\* No thread can write the job of slot s any more: its runner has exited or
\* is stuck, no cancel request of it is in flight and no sweep holds it.
Settled(s) ==
    /\ req[s].pc \in {"done", "stuck"}
    /\ \A c \in Cancels : can[c].job = s => can[c].pc \in {"idle", "done"}
    /\ s \notin wd.list

\* C1: once a job's status is completed, failed or cancelled, no later write
\* changes it (a late runner write after a cancel or a reap is rejected).
C1_TerminalStatusIsFinal ==
    [][\A j \in Slots :
          jobs[j].status \in Terminal => jobs'[j].status = jobs[j].status]_vars

\* C2: in every reachable state every user's credits are >= 0.
C2_NoNegativeCredits == \A u \in Users : credits[u] >= 0

\* C3: every admission debit takes effect at one point: it succeeds exactly
\* when the credits at that point cover the cost and then lowers them by the
\* cost; otherwise it answers insufficient credits and leaves them unchanged.
C3_DebitsLinearizable ==
    [][\A s \in Slots :
          req[s].pc = "debit" /\ req'[s].pc # "debit" =>
             LET u == User(s)
                 cost == req[s].required_credits
             IN  IF credits[u] >= cost
                    THEN /\ credits' = [credits EXCEPT ![u] = @ - cost]
                         /\ ledger'[s].debited = cost
                         /\ req'[s].resp # "insufficient_credits"
                    ELSE /\ credits' = credits
                         /\ ledger'[s].debited = 0
                         /\ req'[s].pc = "done"
                         /\ req'[s].resp = "insufficient_credits"]_vars

\* Two requests that both read 2 credits and both need 2: one debit succeeded,
\* the other failed at its conditional update.
C3_Witness ==
    \E s1, s2 \in Slots :
        /\ s1 # s2
        /\ ledger[s1].debited = 2
        /\ req[s2].resp = "insufficient_credits"
        /\ req[s2].required_credits = 2 /\ req[s2].available = 2

\* C4: a job that debited k and ends failed, by its runner's write or by the
\* watchdog's, has had exactly k credited back; one that ends completed has
\* had nothing credited back. Stated for the jobs no cancel request addressed.
C4_FailedRefundedCompletedNot ==
    \A s \in Slots :
        Settled(s) /\ (\A c \in Cancels : can[c].job # s) =>
            /\ jobs[s].status = "failed" => CreditedBack(s) = ledger[s].debited
            /\ jobs[s].status = "completed" => CreditedBack(s) = 0

\* C5: a successful cancel sets the job's status to cancelled and raises the
\* owner's credits by exactly 1, whatever the job's type or debit.
C5_CancelRefundsOne ==
    [][\A c \in Cancels :
          /\ can[c].pc = "write" /\ can'[c].pc = "refund" =>
                jobs'[can[c].job].status = "cancelled"
          /\ can'[c].resp = "cancelled" /\ can[c].resp # "cancelled" =>
                /\ can[c].pc = "refund"
                /\ can[c].user = jobs[can[c].job].user_id
                /\ can[c].seen \in Cancellable
                /\ credits' = [credits EXCEPT ![can[c].user] = @ + 1]]_vars

\* A cancelled first-time recommendations job: 2 debited, 1 refunded by the cancel.
C5_Witness ==
    \E c \in Cancels :
        /\ can[c].resp = "cancelled"
        /\ jobs[can[c].job].type = "recommendations"
        /\ ledger[can[c].job].debited = 2
        /\ ledger[can[c].job].cancel = 1

\* C6: a request that fails for insufficient credits answers with the required
\* and available credits, has created no job and deleted no artifact, and
\* leaves every user's credits unchanged.
C6_InsufficientChangesNothing ==
    [][\A s \in Slots :
          req'[s].resp = "insufficient_credits" /\ req[s].resp # "insufficient_credits" =>
             /\ UNCHANGED <<credits, jobs, posts, analyses, pain_points, recommendations>>
             /\ req'[s].pc = "done" /\ req'[s].http \in {400, 402}
             /\ req'[s].required_credits \in {RegenerateCost, FirstTimeRecCost}
             /\ req'[s].available >= 0
             /\ credits[req'[s].user] < req'[s].required_credits
             /\ jobs'[s] = NoJob
             /\ ledger'[s] = NoLedger]_vars

\* A regenerate request that passed the first check and failed at the
\* conditional update, the user's analysis still there.
C6_Witness ==
    \E s \in Slots :
        /\ req[s].resp = "insufficient_credits" /\ req[s].kind = "analysis"
        /\ req[s].available >= 1
        /\ <<User(s), product_normalized(RequestProduct)>> \in analyses

\* C7: a scrape job exists only after cost(limit, time_filter) credits were
\* debited from its user.
C7_ScrapeDebitsCost ==
    \A s \in Slots :
        req[s].kind = "scrape" /\ jobs[s].status # "none" =>
            ledger[s].debited = calculate_insight_cost(req[s].limit, req[s].time_filter)

DagEdges ==
    {<<"pending", "in_progress">>, <<"in_progress", "completed">>,
     <<"in_progress", "failed">>, <<"pending", "cancelled">>,
     <<"in_progress", "cancelled">>}

\* C9: every status change of a job, by whichever component, is an edge of
\* pending -> in_progress -> {completed, failed}, pending -> cancelled,
\* in_progress -> cancelled.
C9_OnlyDagEdges ==
    [][\A j \in Slots :
          jobs[j].status # "none" /\ jobs'[j].status # jobs[j].status =>
             <<jobs[j].status, jobs'[j].status>> \in DagEdges]_vars

\* C10: a job in_progress has started_at set and completed_at unset.
C10_InProgressTimestamps ==
    \A j \in Slots :
        jobs[j].status = "in_progress" =>
            jobs[j].started_at # Null /\ jobs[j].completed_at = Null

\* C11: a job whose status is completed, failed or cancelled has completed_at
\* set, and every write that leaves a job in a terminal status sets its
\* completed_at to the time of the write.
C11_TerminalHasCompletedAt ==
    [][\A j \in Slots :
          jobs'[j].status \in Terminal =>
             /\ jobs'[j].completed_at # Null
             /\ jobs'[j] # jobs[j] => jobs'[j].completed_at = now]_vars

\* A job its runner completed one tick after it was created.
C11_Witness ==
    \E j \in Slots :
        /\ jobs[j].status = "completed"
        /\ jobs[j].created_at = 0 /\ jobs[j].completed_at = 1

\* C12: credits_used is set at most once, only by a write that leaves the job
\* in a terminal status, and is null while the job is pending or in_progress.
C12_CreditsUsedSetOnce ==
    [][\A j \in Slots :
          /\ jobs[j].status # "none" /\ jobs[j].credits_used # Null =>
                jobs'[j].credits_used = jobs[j].credits_used
          /\ jobs'[j].credits_used # jobs[j].credits_used =>
                jobs'[j].status \in Terminal
          /\ jobs'[j].status \in {"pending", "in_progress"} =>
                jobs'[j].credits_used = Null]_vars

\* A cancelled job its runner later completed, writing credits_used 2.
C12_Witness ==
    \E j \in Slots :
        /\ jobs[j].status = "completed" /\ jobs[j].credits_used = 2
        /\ jobs[j].error = "cancelled_by_user"

\* The errors the watchdog writes: "Job timed out after <n> minutes" and
\* "Job timed out (pending too long)".
TimedOutErrors == {"timed_out", "timed_out_pending"}

C19_TerminalNotCancellable ==
    [][\A c \in Cancels :
          /\ can[c].pc = "idle" /\ can'[c].pc # "idle" =>
                LET j == can'[c].job
                IN  /\ jobs[j].status \in Terminal /\ jobs[j].user_id = can'[c].user =>
                          /\ can'[c].resp = "not_cancellable" /\ can'[c].http = 400
                          /\ can'[c].pc = "done"
                          /\ UNCHANGED <<jobs, credits, ledger>>
                    /\ can'[c].resp = "not_cancellable" => jobs[j].status \in Terminal
          /\ can[c].resp = "not_cancellable" => can'[c] = can[c]]_vars

\* A cancel of a completed job, refused.
C19_Witness ==
    \E c \in Cancels :
        /\ can[c].resp = "not_cancellable" /\ can[c].pc = "done"
        /\ jobs[can[c].job].status = "completed"
        /\ ledger[can[c].job].cancel = 0

\* The documents of user u for the requests' product stored under type t.
DocsOfType(recs, u, t) ==
    {d \in recs : /\ d.user_id = u /\ d.recommendation_type = t
                  /\ d.product = product_normalized(RequestProduct)}

\* At most one document per (user, type), and Recommendations.get for a type
\* returns that type's document and nothing else, or the empty list.
TypesIsolated(recs) ==
    \A u \in Users, t \in RecTypes :
        /\ Cardinality(DocsOfType(recs, u, t)) <= 1
        /\ Recommendations_get(recs, u, RequestProduct, t) =
              IF DocsOfType(recs, u, t) = {} THEN <<>>
              ELSE <<CHOOSE d \in DocsOfType(recs, u, t) : TRUE>>

\* C20: whatever was saved, there is at most one document per (user, type),
\* a get of a type returns only that type's document, or the empty list when
\* there is none, and a save removes or overwrites no document of another
\* type: documents go only with the regenerate clear of their user.
C20_RecommendationTypesIsolated ==
    [][/\ TypesIsolated(recommendations) /\ TypesIsolated(recommendations')
       /\ \A d \in recommendations \ recommendations' :
              \E s \in Slots : /\ req[s].pc = "clear" /\ req'[s].pc # "clear"
                               /\ req[s].user = d.user_id]_vars

\* alice holds an improve_product and a new_feature document; each get
\* returns its own, and the get of competing_product returns the empty list.
C20_Witness ==
    /\ Recommendations_get(recommendations, "alice", RequestProduct, "improve_product")
          = <<RecDoc("alice", RequestProduct, "improve_product")>>
    /\ Recommendations_get(recommendations, "alice", RequestProduct, "new_feature")
          = <<RecDoc("alice", RequestProduct, "new_feature")>>
    /\ Recommendations_get(recommendations, "alice", RequestProduct, "competing_product") = <<>>
    /\ \E s \in Slots : req[s].kind = "recommendations" /\ req[s].pc = "done"

\* What a get answers on the jobs js to a user who is not the owner, and for
\* an unknown job id.
GetRefusesOthers(js) ==
    \A u \in Users, j \in Slots :
        LET r == GetJobDetails_get(js, u, j)
        IN  /\ js[j].status = "none" =>
                  r.http = 404 /\ r.resp = "not_found" /\ r.job = NoJob
            /\ js[j].status # "none" /\ js[j].user_id # u =>
                  r.http = 403 /\ r.resp = "forbidden" /\ r.job = NoJob

\* C18: a get or a cancel of a job by a user who is not its owner answers
\* forbidden, and of an unknown job id not_found; the answer carries nothing
\* of the job, the request ends there, and the cancel changes no job and no
\* credits.
C18_NotOwnerForbidden ==
    [][/\ GetRefusesOthers(jobs) /\ GetRefusesOthers(jobs')
       /\ \A c \in Cancels :
              /\ can[c].pc = "idle" /\ can'[c].pc # "idle" =>
                    LET j == can'[c].job
                        refused == IF jobs[j].status = "none" THEN "not_found"
                                   ELSE IF jobs[j].user_id # can'[c].user THEN "forbidden"
                                   ELSE "none"
                    IN  refused # "none" =>
                           /\ can'[c].resp = refused /\ can'[c].pc = "done"
                           /\ can'[c].http = IF refused = "forbidden" THEN 403 ELSE 404
                           /\ UNCHANGED <<jobs, credits, ledger>>
              /\ can[c].resp \in {"forbidden", "not_found"} => can'[c] = can[c]]_vars

\* bob's cancel of alice's in_progress job was refused, and so is his get.
C18_Witness ==
    \E c \in Cancels :
        /\ can[c].user = "bob" /\ can[c].resp = "forbidden"
        /\ jobs[can[c].job].user_id = "alice"
        /\ jobs[can[c].job].status = "in_progress"
        /\ GetJobDetails_get(jobs, "bob", can[c].job).resp = "forbidden"
        /\ GetJobDetails_get(jobs, "alice", can[c].job).job = jobs[can[c].job]

\* C15: the logs of a job change only by the runner's append_job_log, which
\* puts its entry, stamped with the time of the call, after the entries already
\* there and leaves those as they are; the timestamps never decrease along the
\* logs, and the owner's get of the job returns the logs as stored.
C15_LogsAppendOnlyInOrder ==
    [][\A s \in Slots :
          /\ jobs[s].status # "none" /\ jobs'[s].logs # jobs[s].logs =>
                /\ app'[s].k = app[s].k + 1
                /\ jobs'[s].logs = Append(jobs[s].logs,
                                     [step |-> app'[s].last, timestamp |-> now])
          /\ \A i, k \in 1..Len(jobs'[s].logs) :
                i <= k => jobs'[s].logs[i].timestamp <= jobs'[s].logs[k].timestamp
          /\ jobs'[s].status # "none" =>
                GetJobDetails_get(jobs', jobs'[s].user_id, s).job.logs = jobs'[s].logs]_vars

\* alice's job has logged all of a successful scrape, over more than one
\* instant, and her get returns the five entries in the order of the runner.
C15_Witness ==
    /\ Len(jobs[1].logs) = 5 /\ app[1].k = 5
    /\ jobs[1].logs[1].timestamp < jobs[1].logs[5].timestamp
    /\ [i \in 1..5 |-> GetJobDetails_get(jobs, "alice", 1).job.logs[i].step]
          = <<"subreddits", "search_queries", "find_posts", "save_posts", "completed">>

\* The job_log events of job j that client c has received, as log entries.
ReceivedOf(c, j) ==
    LET evs == SelectSeq(inbox[c], LAMBDA e : e.job_id = j)
    IN  [i \in 1..Len(evs) |-> evs[i].log]

RECURSIVE IsSubseq(_, _)
IsSubseq(a, b) ==
    IF a = <<>> THEN TRUE
    ELSE IF b = <<>> THEN FALSE
    ELSE IF Head(a) = Head(b) THEN IsSubseq(Tail(a), Tail(b))
    ELSE IsSubseq(a, Tail(b))

\* C16: a client receives a job_log event only when an append_job_log call of
\* a job publishes its entry while the client is subscribed to that job, and
\* then it receives that one entry, once, after what it had received before;
\* subscribing and unsubscribing deliver nothing, so earlier entries are never
\* replayed. What a client has received of a job is therefore a selection of
\* the job's logs in their order, no entry twice.
C16_SubscriberSeesLaterEntriesInOrder ==
    [][/\ \A c \in Clients :
              inbox'[c] # inbox[c] =>
                 \E j \in Slots :
                    /\ c \in rooms[j] /\ rooms' = rooms
                    /\ app[j].emit /\ ~app'[j].emit
                    /\ jobs[j].logs # <<>>
                    /\ inbox'[c] = Append(inbox[c],
                           [job_id |-> j, log |-> jobs[j].logs[Len(jobs[j].logs)]])
       /\ rooms' # rooms => inbox' = inbox
       /\ \A c \in Clients, j \in Slots :
              inbox'[c] # inbox[c] \/ jobs'[j].logs # jobs[j].logs =>
                 LET got == ReceivedOf(c, j)'
                 IN  /\ c \notin rooms[j] => got = ReceivedOf(c, j)
                     /\ IsSubseq(got, jobs'[j].logs)
                     /\ \A i, k \in 1..Len(got) : i # k => got[i] # got[k]]_vars

\* bob subscribed to his job after its first entry and left before its last:
\* he has received the second and the third, and nothing of alice's job,
\* which has logged as well.
C16_Witness ==
    /\ Len(jobs[2].logs) = 4 /\ ~app[2].emit /\ "bob" \notin rooms[2]
    /\ ReceivedOf("bob", 2) = <<jobs[2].logs[2], jobs[2].logs[3]>>
    /\ jobs[1].logs # <<>> /\ ReceivedOf("bob", 1) = <<>>

\* C17: a client that is not the owner of a job receives no log entry of the
\* job.
C17_OnlyOwnerReceives ==
    \A c \in Clients, j \in Slots :
        jobs[j].status # "none" /\ jobs[j].user_id # c => ReceivedOf(c, j) = <<>>

\* The artifacts of (u, product) in the three collections.
ArtifactsOf(as, pps, recs, u, product) ==
    <<{d \in as : d = <<u, product>>},
      {d \in pps : d = <<u, product>>},
      {d \in recs : d.user_id = u /\ d.product = product}>>

\* C21: the clear of a regenerate comes after its debit and before its job
\* record; it leaves no analysis, no pain point and no recommendation document
\* of (user, product), and leaves every other artifact as it was.
C21_RegenerateClears ==
    [][\A s \in Slots :
          /\ req[s].kind = "analysis" /\ req[s].regenerate /\ jobs'[s] # jobs[s]
                /\ jobs[s] = NoJob =>
                   ledger[s].debited = RegenerateCost /\ ledger[s].cleared = 1
          /\ req[s].pc = "clear" /\ req'[s].pc # "clear" =>
                LET u == req[s].user
                    pr == product_normalized(RequestProduct)
                IN  /\ ledger[s].debited = RegenerateCost /\ jobs[s] = NoJob
                    /\ req'[s].pc = "create"
                    /\ ArtifactsOf(analyses', pain_points', recommendations', u, pr)
                          = <<{}, {}, {}>>
                    /\ \A v \in Users, q \in Products :
                          <<v, q>> # <<u, pr>> =>
                             ArtifactsOf(analyses', pain_points', recommendations', v, q)
                               = ArtifactsOf(analyses, pain_points, recommendations, v, q)]_vars

\* C22: calculate_insight_cost returns 1 up to limit 10, and above it the
\* limit tier (1, 2, 3, 4 up to 50, 100, 200 and beyond) times the time
\* multiplier plus one (1 for hour, day, week, 2 for month, 3 for year, 4 for
\* all, and 1 for any other filter).
C22_InsightCost ==
    \A s \in Slots :
        req[s].kind = "cost" /\ req[s].pc = "done" =>
           LET limit == req[s].limit
               tf == req[s].time_filter
               tier == CHOOSE t \in 1..4 :
                          \/ t = 1 /\ limit <= 50
                          \/ t = 2 /\ 50 < limit /\ limit <= 100
                          \/ t = 3 /\ 100 < limit /\ limit <= 200
                          \/ t = 4 /\ 200 < limit
               mult == IF tf = "month" THEN 2
                       ELSE IF tf = "year" THEN 3
                       ELSE IF tf = "all" THEN 4
                       ELSE 1
           IN  req[s].required_credits = IF limit <= 10 THEN 1 ELSE tier * (mult + 1)

\* The cost of 150 posts under a filter the table does not know: tier 3,
\* multiplier 1.
C22_Witness ==
    /\ req[1].kind = "cost" /\ req[1].pc = "done"
    /\ req[1].limit = 150 /\ req[1].time_filter = "decade"
    /\ req[1].required_credits = 6

\* In one step: the price a recommendations request is given when it is
\* admitted to its debit is price(its regenerate flag, whether the document of
\* its (user, product, type) is stored); a debit takes the request's price,
\* once, from its user; an analysis request is debited 1 and only as a
\* regenerate; and a job is created after the debit of its price and, for a
\* plain analysis, after none.
DebitsFollow(price(_, _)) ==
    \A s \in Slots :
       /\ req[s].pc = "idle" /\ req'[s].pc = "debit" /\ req'[s].kind = "recommendations" =>
             req'[s].required_credits =
                price(req'[s].regenerate,
                      find_one(recommendations,
                               rec_doc_id(req'[s].user, RequestProduct, req'[s].rtype)) # {})
       /\ ledger'[s].debited # ledger[s].debited =>
             /\ ledger[s].debited = 0 /\ req[s].pc = "debit"
             /\ ledger'[s].debited = req[s].required_credits
             /\ credits' = [credits EXCEPT ![req[s].user] = @ - req[s].required_credits]
             /\ req[s].kind = "analysis" => req[s].regenerate /\ ledger'[s].debited = 1
       /\ jobs[s] = NoJob /\ jobs'[s] # NoJob /\ req[s].kind = "analysis" =>
             ledger[s].debited = IF req[s].regenerate THEN 1 ELSE 0
       /\ jobs[s] = NoJob /\ jobs'[s] # NoJob /\ req[s].kind = "recommendations" =>
             ledger[s].debited = req[s].required_credits

PriceByFlag(regenerate, existing) == IF regenerate THEN 1 ELSE 2

PriceByFlagAndDocument(regenerate, existing) == IF regenerate /\ existing THEN 1 ELSE 2

\* C23: recommendations.start debits 1 credit when regenerate=true and 2
\* otherwise, and analysis.start debits 1 credit when regenerate=true and
\* nothing otherwise.
C23_DebitByRegenerateFlag == [][DebitsFollow(PriceByFlag)]_vars

\* C23, amended: recommendations.start debits 1 credit when regenerate=true
\* and a document of (user, product, type) is stored when the handler looks it
\* up, and 2 credits otherwise; analysis.start debits 1 credit when
\* regenerate=true and nothing otherwise.
C23_DebitByFlagAndDocument == [][DebitsFollow(PriceByFlagAndDocument)]_vars

\* A new_feature request with regenerate=true and no such document stored was
\* debited 2, and an improve_product regenerate of the stored document 1.
C23_Witness ==
    \E s, t \in Slots :
        /\ req[s].kind = "recommendations" /\ req[s].regenerate
        /\ req[s].rtype = "new_feature" /\ ledger[s].debited = 2
        /\ req[t].kind = "recommendations" /\ req[t].regenerate
        /\ req[t].rtype = "improve_product" /\ ledger[t].debited = 1

\* The job ids in a user's entry of user_scraping_jobs.
Tracked(u) == {user_scraping_jobs[u][i] : i \in 1..Len(user_scraping_jobs[u])}

\* C24: a scrape request is accepted whatever workers its user has, and a
\* worker whose handler has put it in user_scraping_jobs is in its user's
\* entry as long as it is alive.
C24_LiveWorkersTracked ==
    \A s \in Slots :
        /\ req[s].kind = "scrape" /\ req[s].pc = "done" => req[s].resp = "success"
        /\ is_alive(s) /\ reg[s].h = "tracked" => s \in Tracked(req[s].user)

RejectResponses ==
    {"product_required", "topic_required", "invalid_time_filter",
     "invalid_recommendation_type", "context_too_long", "no_posts_found", "no_pain_points"}

\* C25: a request with a blank product or topic, an invalid time filter, an
\* invalid recommendation type or a context of more than 500 characters, or
\* whose product has no posts (analysis) or whose user has no pain points for
\* the product (recommendations), is answered 400 or 404 at once: that step
\* changes no credits, no job, no artifact and no registry entry, and the
\* request does nothing afterwards.
C25_RejectedChangesNothing ==
    [][\A s \in Slots :
          /\ req[s].pc = "idle" /\ req'[s].pc # "idle" =>
                LET r == req'[s]
                    invalid ==
                       \/ stripped(req[s].product) = ""
                       \/ r.kind = "scrape" /\ r.time_filter \notin ValidTimeFilters
                       \/ r.kind = "recommendations" /\ r.rtype \notin RecTypes
                       \/ r.kind = "recommendations" /\ req[s].context > 500
                    unmet ==
                       \/ r.kind = "analysis" /\ ~posts
                       \/ r.kind = "recommendations"
                             /\ <<r.user, product_normalized(RequestProduct)>> \notin pain_points
                IN  invalid \/ unmet =>
                       /\ r.pc = "done" /\ r.http \in {400, 404}
                       /\ r.resp \in RejectResponses
                       /\ UNCHANGED <<credits, jobs, storeVars, ledger, user_scraping_jobs>>
          /\ req[s].resp \in RejectResponses =>
                /\ req'[s] = req[s]
                /\ jobs'[s] = NoJob /\ ledger'[s] = NoLedger]_vars

\* alice, with credits, asked for recommendations while a regenerate of her
\* analysis had cleared her pain points: refused, nothing debited for it and
\* no job of it.
C25_Witness ==
    \E s, t \in Slots :
        /\ req[s].resp = "no_pain_points" /\ req[s].http = 400
        /\ credits["alice"] = MaxCredits - RegenerateCost
        /\ req[t].kind = "analysis" /\ ledger[t].cleared = 1
        /\ jobs[s] = NoJob /\ ledger[s] = NoLedger

\* C26: every decrement of a user's credits is one conditional update guarded
\* by credits >= amount: a step that lowers credits leaves them >= 0, and the
\* write of a deduction (UpdateUserCredits deduct, deduct_user_credits) finds
\* credits >= amount and leaves exactly credits - amount, whatever ran between
\* its read and its write.
C26_DecrementsAtomicAndGuarded ==
    [][/\ \A u \in Users : credits'[u] < credits[u] => credits'[u] >= 0
       /\ /\ upd.pc \in {"write", "set"} /\ upd'.pc = "done"
          /\ upd.operation \in {"deduct", "deduct_user_credits"}
          => /\ credits[upd.user] >= upd.amount
             /\ credits'[upd.user] = credits[upd.user] - upd.amount]_vars

\* C27: for every job at most one job.cancel request succeeds and at most one
\* cancel refund of 1 credit is paid for it.
C27_OneCancelPerJob ==
    \A j \in Slots :
        /\ Cardinality({c \in Cancels : can[c].job = j /\ can[c].resp = "cancelled"}) <= 1
        /\ ledger[j].cancel <= CancelRefund

\* C28: for every job the credits credited back on its account (cancel refund,
\* runner failure refund, create-failure compensation) never exceed the
\* credits debited at its admission.
C28_CreditedBackAtMostDebited ==
    \A s \in Slots : CreditedBack(s) <= ledger[s].debited

\* C29: a step of the watchdog's sweep changes no user's credits, and the only
\* jobs it changes are jobs of its list, of which it writes status (failed),
\* error and completed_at and nothing else.
C29_SweepWritesOnlyTheJob ==
    [][wd' # wd =>
          /\ credits' = credits
          /\ \A j \in Slots :
                jobs'[j] # jobs[j] =>
                   /\ j \in wd.list
                   /\ jobs'[j] = [jobs[j] EXCEPT !.status = "failed",
                                                 !.error = jobs'[j].error,
                                                 !.completed_at = now]]_vars

\* A job that debited 1 was reaped by the sweep: failed with the timeout error,
\* nothing credited back and its owner still 1 below the initial credits.
C29_Witness ==
    \E s \in Slots :
        /\ jobs[s].status = "failed" /\ jobs[s].error = "timed_out"
        /\ ledger[s].debited = 1 /\ CreditedBack(s) = 0
        /\ wd.pc = "idle"
        /\ \E c \in 1..MaxCredits :
              credits = [u \in Users |-> IF u = jobs[s].user_id THEN c - 1 ELSE c]

\* C30: one update_job_status call makes at most 3 write attempts; it goes on
\* to another attempt only after a ConnectionFailure or OperationFailure and
\* only before the third; it returns False when the third attempt fails, and
\* at once on any other exception and when the job is not found or not
\* modified; it returns True as soon as, and only when, an attempt modified
\* the job.
C30_AtMostThreeAttempts ==
    [][/\ call'.attempts <= 3
       /\ call.pc = "while" /\ call' # call =>
             /\ call'.attempts = call.attempts + 1
             /\ call'.pc \in {"while", "done"}
             /\ call'.pc = "while" <=>
                   /\ call'.last \in {"ConnectionFailure", "OperationFailure"}
                   /\ call'.attempts < 3
             /\ call'.pc = "done" => call'.ret \in {"True", "False"}
             /\ call'.ret = "True" <=> call'.modified
             /\ call'.modified <=> jobs'[call.job] = update_data(jobs[call.job], call.status, NoPatch)
                                     /\ jobs[call.job].status # "none"
                                     /\ call'.last = "result"
             /\ ~call'.modified => jobs' = jobs]_vars

\* A call that met two connection or operation failures and then modified the
\* job: three attempts, True, and the job has the status it wrote.
C30_Witness ==
    /\ call.pc = "done" /\ call.attempts = 3 /\ call.retry_count = 2
    /\ call.ret = "True"
    /\ jobs[call.job].status = call.status

\* C31: the runner appends its "completed" entry before the write that sets
\* the status to completed: no entry is appended to the logs of a job whose
\* status is completed, failed or cancelled.
C31_NoAppendAfterTerminal ==
    [][\A s \in Slots :
          Len(jobs'[s].logs) > Len(jobs[s].logs) => jobs[s].status \notin Terminal]_vars

C33_CallbackOncePerAppendedEntry ==
    [][\A s \in Slots :
          /\ app'[s].called + (IF app'[s].emit THEN 1 ELSE 0) = Len(jobs'[s].logs)
          /\ app'[s].k = app[s].k + 1 =>
                /\ app'[s].emit <=> Len(jobs'[s].logs) = Len(jobs[s].logs) + 1
                /\ app'[s].called = app[s].called
          /\ app'[s].called # app[s].called =>
                /\ app'[s].called = app[s].called + 1
                /\ app[s].emit /\ ~app'[s].emit
                /\ jobs' = jobs /\ req' = req
                /\ \A c \in Clients :
                      \/ inbox'[c] = inbox[c]
                      \/ /\ c \in rooms[s]
                         /\ inbox'[c] = Append(inbox[c],
                               [job_id |-> s, log |-> jobs[s].logs[Len(jobs[s].logs)]])]_vars

\* Three append_job_log calls of which one appended nothing and made no
\* callback: two entries in the logs and two callbacks, of which one reached
\* bob, now in the room.
C33_Witness ==
    /\ app[1].k = 3 /\ ~app[1].emit /\ app[1].called = 2
    /\ Len(jobs[1].logs) = 2
    /\ "bob" \in rooms[1] /\ Len(inbox["bob"]) = 1

\* C34: a scrape worker that has exited has no entry in user_scraping_jobs, and
\* GetStatus reports scrape_in_progress = false for a user none of whose
\* workers is alive.
C34_ExitedWorkersUntracked ==
    /\ \A s \in Slots :
          req[s].kind = "scrape" /\ reg[s].f = "over" /\ reg[s].h = "tracked" =>
             s \notin Tracked(req[s].user)
    /\ \A u \in Users :
          (\A s \in Slots : req[s].user = u => ~is_alive(s)) => ~GetStatus_get(u)

\* C35: analysis.get for user u and product p answers with u's own analysis
\* of p or, when u has none, with not_found: never with a document of another
\* user.
C35_AnalysisGetIsUserScoped ==
    \A u \in Users :
        \A r \in GetClaudeAnalysis_get(analyses, u, RequestProduct) :
            IF <<u, product_normalized(RequestProduct)>> \in analyses
               THEN r.analysis = <<u, product_normalized(RequestProduct)>>
               ELSE r.resp = "not_found" /\ r.analysis = NoAnalysis

\* C36: an analysis.start that answered with an error has deleted no analysis,
\* pain point or recommendation: artifacts are deleted only for a regenerate
\* request that yields a job.
C36_ErrorLeavesArtifacts ==
    \A s \in Slots :
        req[s].kind = "analysis" /\ req[s].pc = "done" /\ req[s].http # 200 =>
            ledger[s].deleted = 0

\* C37: a CLOSED breaker goes to OPEN exactly on the step that records the
\* failure_threshold-th expected failure since the last recorded success, and
\* a success recorded in CLOSED sets failure_count to 0. A call that finds the
\* breaker OPEN less than timeout after the last failure goes on to raise, and
\* a call that raises so has not run func and, the breaker still being OPEN,
\* raises CircuitBreakerOpenError.
C37_OpensAtThreshold ==
    [][/\ cb.state = "CLOSED" =>
             /\ cb'.state = "OPEN" <=>
                   /\ cb'.streak = cb.streak + 1
                   /\ cb'.streak = failure_threshold
             /\ cb'.state \in {"CLOSED", "OPEN"}
             /\ (\E t \in Callers : caller[t].pc = "record_success" /\ caller'[t].pc = "done")
                   => cb'.failure_count = 0 /\ cb'.state = "CLOSED"
       /\ \A t \in Callers :
             /\ /\ caller[t].pc = "open" /\ caller'[t] # caller[t]
                /\ cb.state = "OPEN" /\ now - cb.last_failure_time < timeout
                => caller'[t].pc = "raise"
             /\ caller[t].pc = "raise" /\ caller'[t].pc = "done" =>
                   /\ ~caller'[t].invoked
                   /\ cb.state = "OPEN" => caller'[t].result = "CircuitBreakerOpenError"]_vars

\* The breaker opened on its failure_threshold-th failure in a row, and a call
\* made before the timeout was refused without running func.
C37_Witness ==
    /\ cb.state = "OPEN" /\ cb.streak = failure_threshold
    /\ cb.failure_count = failure_threshold
    /\ now - cb.last_failure_time < timeout
    /\ \E t \in Callers :
          /\ caller[t].pc = "done" /\ caller[t].result = "CircuitBreakerOpenError"
          /\ ~caller[t].invoked

\* C38: the first call after the timeout takes an OPEN breaker to HALF_OPEN
\* and goes through to func; an expected failure recorded in HALF_OPEN takes it
\* back to OPEN; and once two successes are recorded in HALF_OPEN the breaker
\* gets to CLOSED with failure_count and success_count 0.
C38_HalfOpenRecovery ==
    /\ [][/\ \A t \in Callers :
                /\ /\ caller[t].pc = "open" /\ caller'[t] # caller[t]
                   /\ cb.last_failure_time # Null /\ now - cb.last_failure_time > timeout
                   => caller'[t].pc = "half_open"
                /\ caller[t].pc = "half_open" /\ caller'[t] # caller[t] =>
                      /\ caller'[t].pc = "func"
                      /\ cb.state = "OPEN" => cb'.state = "HALF_OPEN"
                /\ /\ caller[t].pc = "record_failure" /\ caller'[t] # caller[t]
                   /\ cb.state = "HALF_OPEN"
                   => cb'.state = "OPEN"]_vars
    /\ (cb.state = "HALF_OPEN" /\ cb.success_count >= 2)
          ~> (cb.state = "CLOSED" /\ cb.failure_count = 0 /\ cb.success_count = 0)

\* C39: a thread in reset, record_failure or record_success gets to the end
\* of the method, and does not hold the lock then.
C39_MethodsReleaseTheLock ==
    \A t \in Callers :
        (caller[t].pc \in {"reset", "record_failure", "record_success"})
            ~> (caller[t].pc = "done" /\ cb.lock # t)

====
